---- MODULE Spec2Model ----
(***************************************************************************)
(* Guest-side marshalling layer of the Zephyr SDK: the status code         *)
(* protocol (zephyr-common, zephyr-sdk/src/lib.rs), the database gateway   *)
(* and the table query wrapper (zephyr-sdk/src/database.rs) and the        *)
(* operations generated by the DatabaseInteract derive (macros/src/lib.rs).*)
(*                                                                         *)
(* A 64-bit integer crossing the host boundary as a status is kept as its  *)
(* four 16-bit limbs <<l3, l2, l1, l0>> (two's complement, most            *)
(* significant first), so that `status as u32` is exact.  Words pushed on  *)
(* the host stack (tokens, counts, pointers, lengths) are small integers.  *)
(***************************************************************************)
EXTENDS Integers, Sequences, FiniteSets, TLC

MaxCols == 2
MaxSegs == 2
MaxConds == 2
MaxRows == 2
MaxMetas == 2
MaxProcs == 2
MaxTables == 2

VARIABLES op, call, trace, result, builder, store, puts, procs, cli

vars == <<op, call, trace, result, builder, store, puts, procs, cli>>

SeqsUpTo(S, n) == UNION {[1..k -> S] : k \in 0..n}

-----------------------------------------------------------------------------
(* Status code protocol *)

\* the values a 16-bit limb of a host status takes in the model (65535: all
\* bits set, as in the limbs of a small negative number)
LimbValues == {0, 1, 65535}
LowLimbValues == 0..7 \cup {65535}

StatusValues == LimbValues \X LimbValues \X LimbValues \X LowLimbValues

\* the i64 whose value is the small natural n
I64(n) == <<0, 0, 0, n>>

\* `status as u32`: the low 32 bits, as <<l1, l0>>
AsU32(status) == <<status[3], status[4]>>

\* impl From<u32> for ZephyrStatus; "Panic" is panic!("Unrecoverable status")
ZephyrStatusFromU32(value) ==
    IF value[1] # 0 THEN "Panic"
    ELSE CASE value[2] = 0 -> "Unknown"
           [] value[2] = 1 -> "Success"
           [] value[2] = 2 -> "DbWriteError"
           [] value[2] = 3 -> "DbReadError"
           [] value[2] = 4 -> "NoValOnStack"
           [] value[2] = 5 -> "HostConfiguration"
           [] OTHER -> "Panic"

Ok(rows) == [kind |-> "Ok", err |-> "none", rows |-> rows]
Err(e) == [kind |-> "Err", err |-> e, rows |-> <<>>]
Panic == [kind |-> "Panic", err |-> "none", rows |-> <<>>]
NoResult == [kind |-> "None", err |-> "none", rows |-> <<>>]

express_from_status_swapped(status) ==
    LET zs == ZephyrStatusFromU32(AsU32(status))
    IN  CASE zs = "Success" -> Ok(<<>>)
          [] zs = "DbReadError" -> Err("DbWrite")
          [] zs = "DbWriteError" -> Err("DbRead")
          [] zs = "NoValOnStack" -> Err("NoValOnStack")
          [] zs = "HostConfiguration" -> Err("HostConfiguration")
          [] zs = "Unknown" -> Err("Unknown")
          [] OTHER -> Panic

express_from_status(status) ==
    LET zs == ZephyrStatusFromU32(AsU32(status))
    IN  CASE zs = "Success" -> Ok(<<>>)
          [] zs = "DbReadError" -> Err("DbRead")
          [] zs = "DbWriteError" -> Err("DbWrite")
          [] zs = "NoValOnStack" -> Err("NoValOnStack")
          [] zs = "HostConfiguration" -> Err("HostConfiguration")
          [] zs = "Unknown" -> Err("Unknown")
          [] OTHER -> Panic

-----------------------------------------------------------------------------
(* Symbols.  symbol.rs is not part of the sources at hand: a name is either *)
(* encodable, and then has its own token, or try_from_bytes returns Err.    *)

ValidNameList == <<"events", "idx", "value", "typed", "seq", "topic1", "raw",
                   "data", "hash", "extra", "curr_seq", "current">>

ValidNames == {ValidNameList[i] : i \in 1..Len(ValidNameList)}
Names == ValidNames \cup {"bad name"}

TokenOf == [n \in ValidNames |->
              100 + (CHOOSE i \in 1..Len(ValidNameList) : ValidNameList[i] = n)]

SymbolTryFromBytes(name) ==
    IF name \in ValidNames THEN [ok |-> TRUE, sym |-> TokenOf[name]]
    ELSE [ok |-> FALSE, sym |-> 0]

AllEncodable(names) == \A i \in 1..Len(names) : SymbolTryFromBytes(names[i]).ok

\* columns.into_iter().map(|col| Symbol::try_from_bytes(..).unwrap().0 as i64).collect()
ColTokens(cols) == [i \in 1..Len(cols) |-> SymbolTryFromBytes(cols[i]).sym]

-----------------------------------------------------------------------------
(* Stack argument protocol: the events of one operation, in order *)

Push(w) == [ev |-> "push", arg |-> w]
HostCall(f, a) == [ev |-> f, arg |-> a]

HostCallNames == {"read_raw", "read_as_id", "write_raw", "update_raw"}

RECURSIVE PushEach(_)
PushEach(ws) ==
    IF ws = <<>> THEN <<>> ELSE <<Push(Head(ws))>> \o PushEach(Tail(ws))

RECURSIVE PushPairs(_)
\* for segment in segments { env_push_stack(segment.0); env_push_stack(segment.1) }
PushPairs(segments) ==
    IF segments = <<>> THEN <<>>
    ELSE <<Push(Head(segments).ptr), Push(Head(segments).len)>>
         \o PushPairs(Tail(segments))
push_head_no_count(table_name, columns) ==
    <<Push(table_name)>> \o PushEach(columns)


push_head(table_name, columns) ==
    <<Push(table_name), Push(Len(columns))>> \o PushEach(columns)
RECURSIVE PushPairsLenFirst(_)
PushPairsLenFirst(segments) ==
    IF segments = <<>> THEN <<>>
    ELSE <<Push(Head(segments).len), Push(Head(segments).ptr)>>
         \o PushPairsLenFirst(Tail(segments))

push_data_segments_len_first(segments) ==
    <<Push(Len(segments))>> \o PushPairsLenFirst(segments)


push_data_segments(segments) ==
    <<Push(Len(segments))>> \o PushPairs(segments)

\* Condition::ColumnEqualTo(colname, value) => (colname, 0, value)
OperatorCode(cond) == 0

RECURSIVE CondLoop(_)
\* The loop over the conditions: the pushes it makes and whether it ran to
\* its end (the unwrap of a column name that does not encode panics inside it).
CondLoop(conds) ==
    IF conds = <<>> THEN [tr |-> <<>>, ok |-> TRUE]
    ELSE LET s == SymbolTryFromBytes(Head(conds).col)
         IN  IF ~s.ok THEN [tr |-> <<>>, ok |-> FALSE]
             ELSE LET rest == CondLoop(Tail(conds))
                  IN  [tr |-> <<Push(s.sym), Push(OperatorCode(Head(conds)))>> \o rest.tr,
                       ok |-> rest.ok]

\* args.push((value.as_ptr() as i64, value.len() as i64))
CondArgs(conds) == [i \in 1..Len(conds) |-> conds[i].val]
push_conditions_single_count(conds) ==
    LET loop == CondLoop(conds)
    IN  IF ~loop.ok THEN [tr |-> <<Push(Len(conds))>> \o loop.tr, ok |-> FALSE]
        ELSE [tr |-> <<Push(Len(conds))>> \o loop.tr \o PushPairs(CondArgs(conds)),
              ok |-> TRUE]


push_conditions(conds) ==
    LET loop == CondLoop(conds)
    IN  IF ~loop.ok THEN [tr |-> <<Push(Len(conds))>> \o loop.tr, ok |-> FALSE]
        ELSE [tr |-> <<Push(Len(conds))>> \o loop.tr
                     \o <<Push(Len(CondArgs(conds)))>> \o PushPairs(CondArgs(conds)),
              ok |-> TRUE]

-----------------------------------------------------------------------------
(* TableRows on the wire: the bincode form of the derived Serialize and     *)
(* Deserialize of TableRows { rows: Vec<TableRow> }, TableRow { row:        *)
(* Vec<TypeWrap> }, TypeWrap(Vec<u8>): every Vec is a little-endian u64     *)
(* element count followed by its elements; trailing bytes are ignored.      *)

U64Bytes == 8

EncU64(n) == <<n % 256, (n \div 256) % 256, 0, 0, 0, 0, 0, 0>>

RECURSIVE SerializeCols(_)
SerializeCols(row) ==
    IF row = <<>> THEN <<>>
    ELSE EncU64(Len(Head(row))) \o Head(row) \o SerializeCols(Tail(row))

RECURSIVE SerializeRowSeq(_)
SerializeRowSeq(rows) ==
    IF rows = <<>> THEN <<>>
    ELSE EncU64(Len(Head(rows))) \o SerializeCols(Head(rows))
         \o SerializeRowSeq(Tail(rows))

SerializeTableRows(rows) == EncU64(Len(rows)) \o SerializeRowSeq(rows)

DecodeFail == [ok |-> FALSE, val |-> <<>>, next |-> 0]

\* the u64 at byte p; a count with a high byte set exceeds any buffer, and is
\* given as one more than the buffer could hold
ReadU64(buf, p) ==
    IF p + U64Bytes - 1 > Len(buf) THEN DecodeFail
    ELSE IF \E i \in 2..(U64Bytes - 1) : buf[p + i] # 0
         THEN [ok |-> TRUE, val |-> Len(buf) + 1, next |-> p + U64Bytes]
         ELSE [ok |-> TRUE, val |-> buf[p] + 256 * buf[p + 1], next |-> p + U64Bytes]

ReadBytes(buf, p, n) ==
    IF p + n - 1 > Len(buf) THEN DecodeFail
    ELSE [ok |-> TRUE, val |-> SubSeq(buf, p, p + n - 1), next |-> p + n]

RECURSIVE ReadCols(_, _, _)
ReadCols(buf, p, n) ==
    IF n = 0 THEN [ok |-> TRUE, val |-> <<>>, next |-> p]
    ELSE LET len == ReadU64(buf, p)
         IN  IF ~len.ok THEN DecodeFail
             ELSE LET col == ReadBytes(buf, len.next, len.val)
                  IN  IF ~col.ok THEN DecodeFail
                      ELSE LET rest == ReadCols(buf, col.next, n - 1)
                           IN  IF ~rest.ok THEN DecodeFail
                               ELSE [ok |-> TRUE, val |-> <<col.val>> \o rest.val,
                                     next |-> rest.next]

RECURSIVE ReadRows(_, _, _)
ReadRows(buf, p, n) ==
    IF n = 0 THEN [ok |-> TRUE, val |-> <<>>, next |-> p]
    ELSE LET cnt == ReadU64(buf, p)
         IN  IF ~cnt.ok THEN DecodeFail
             ELSE LET row == ReadCols(buf, cnt.next, cnt.val)
                  IN  IF ~row.ok THEN DecodeFail
                      ELSE LET rest == ReadRows(buf, row.next, n - 1)
                           IN  IF ~rest.ok THEN DecodeFail
                               ELSE [ok |-> TRUE, val |-> <<row.val>> \o rest.val,
                                     next |-> rest.next]
DeserializeTableRows_lenient(buf) ==
    LET cnt == ReadU64(buf, 1)
        rows == IF cnt.ok THEN ReadRows(buf, cnt.next, cnt.val) ELSE DecodeFail
    IN  IF rows.ok THEN rows ELSE [ok |-> TRUE, val |-> <<>>, next |-> 1]

\* bincode::deserialize::<TableRows>(slice)
DeserializeTableRows(buf) ==
    LET cnt == ReadU64(buf, 1)
    IN  IF ~cnt.ok THEN DecodeFail ELSE ReadRows(buf, cnt.next, cnt.val)

-----------------------------------------------------------------------------
(* Database gateway.  Each operation gives the events it makes and its      *)
(* result; `reply` is what the host call answers.                           *)

Outcome(tr, res) == [trace |-> tr, result |-> res]
ReadHostCall_raw(hasExt, ext) == HostCall("read_raw", 0)


ReadHostCall(hasExt, ext) ==
    IF hasExt THEN HostCall("read_as_id", ext) ELSE HostCall("read_raw", 0)

read_table(table_name, columns, hasExt, ext, hasConds, conditions, reply) ==
    IF ~SymbolTryFromBytes(table_name).ok \/ ~AllEncodable(columns)
    THEN Outcome(<<>>, Panic)
    ELSE
    LET head == push_head(SymbolTryFromBytes(table_name).sym, ColTokens(columns))
        cb == IF hasConds THEN push_conditions(conditions)
              ELSE [tr |-> <<>>, ok |-> TRUE]
    IN  IF ~cb.ok THEN Outcome(head \o cb.tr, Panic)
        ELSE
        LET tr == head \o cb.tr \o <<ReadHostCall(hasExt, ext)>>
            st == express_from_status(reply.status)
            table == DeserializeTableRows(reply.buf)
        IN  IF st.kind # "Ok" THEN Outcome(tr, st)
            ELSE IF table.ok THEN Outcome(tr, Ok(table.val))
            ELSE Outcome(tr, Err("Conversion"))
write_table_retry(table_name, columns, segments, reply) ==
    IF ~SymbolTryFromBytes(table_name).ok \/ ~AllEncodable(columns)
    THEN Outcome(<<>>, Panic)
    ELSE
    LET tr == push_head(SymbolTryFromBytes(table_name).sym, ColTokens(columns))
              \o push_data_segments(segments)
              \o <<HostCall("write_raw", 0)>>
        st == express_from_status(reply.status)
    IN  IF st.kind = "Err" THEN Outcome(tr \o tr, st) ELSE Outcome(tr, st)


write_table(table_name, columns, segments, reply) ==
    IF ~SymbolTryFromBytes(table_name).ok \/ ~AllEncodable(columns)
    THEN Outcome(<<>>, Panic)
    ELSE
    LET tr == push_head(SymbolTryFromBytes(table_name).sym, ColTokens(columns))
              \o push_data_segments(segments)
              \o <<HostCall("write_raw", 0)>>
    IN  Outcome(tr, express_from_status(reply.status))

update_table(table_name, columns, segments, conditions, reply) ==
    IF ~SymbolTryFromBytes(table_name).ok \/ ~AllEncodable(columns)
    THEN Outcome(<<>>, Panic)
    ELSE
    LET pre == push_head(SymbolTryFromBytes(table_name).sym, ColTokens(columns))
               \o push_data_segments(segments)
        cb == push_conditions(conditions)
    IN  IF ~cb.ok THEN Outcome(pre \o cb.tr, Panic)
        ELSE Outcome(pre \o cb.tr \o <<HostCall("update_raw", 0)>>,
                     express_from_status(reply.status))

-----------------------------------------------------------------------------
(* Column codec of the typed fields: bincode of ZephyrVal is a little-endian *)
(* u32 variant index followed by the payload.  Numbers stay byte sequences   *)
(* (least significant first), so `as i32` is the low four bytes.             *)

TagBytes == 4

\* payload width of the fixed-width variants, by variant index:
\* I128, I64, U64, F64, U32, I32, F32
FixedWidth == <<16, 8, 8, 8, 4, 4, 4>>

TagI32 == 5

\* bincode::deserialize::<ZephyrVal>(&bytes.0)
DeserializeZephyrVal(bytes) ==
    IF Len(bytes) < TagBytes THEN [ok |-> FALSE, tag |-> 0, payload |-> <<>>]
    ELSE IF bytes[2] # 0 \/ bytes[3] # 0 \/ bytes[4] # 0 \/ bytes[1] > 8
    THEN [ok |-> FALSE, tag |-> 0, payload |-> <<>>]
    ELSE IF bytes[1] < 7
    THEN IF Len(bytes) < TagBytes + FixedWidth[bytes[1] + 1]
         THEN [ok |-> FALSE, tag |-> 0, payload |-> <<>>]
         ELSE [ok |-> TRUE, tag |-> bytes[1],
               payload |-> SubSeq(bytes, TagBytes + 1, TagBytes + FixedWidth[bytes[1] + 1])]
    ELSE LET len == ReadU64(bytes, TagBytes + 1)
         IN  IF ~len.ok THEN [ok |-> FALSE, tag |-> 0, payload |-> <<>>]
             ELSE LET body == ReadBytes(bytes, len.next, len.val)
                  IN  IF ~body.ok THEN [ok |-> FALSE, tag |-> 0, payload |-> <<>>]
                      ELSE [ok |-> TRUE, tag |-> bytes[1], payload |-> body.val]

\* String::from_utf8 inside bincode: the model's text bytes are ASCII, and a
\* byte of 128 or more on its own is never valid UTF-8
Utf8Valid(bytes) == \A i \in 1..Len(bytes) : bytes[i] < 128

\* bincode::deserialize::<ZephyrVal>(&bytes.0), with the String variant's
\* UTF-8 validation
DeserializeZephyrValChecked(bytes) ==
    LET zv == DeserializeZephyrVal(bytes)
    IN  IF zv.ok /\ zv.tag = 7 /\ ~Utf8Valid(zv.payload)
        THEN [ok |-> FALSE, tag |-> 0, payload |-> <<>>]
        ELSE zv

\* the field types the derive sends through ZephyrVal, in the order of the
\* variant each one's From<$inner> for ZephyrVal picks (I128 = 0 .. Bytes = 8)
ZephyrValTypes == <<"i128", "i64", "u64", "f64", "u32", "i32", "f32", "String", "Vec">>

IntegerTypes == {"i128", "i64", "u64", "u32", "i32"}

\* the integer variants of ZephyrVal, and the signed ones among them
IntegerTags == {0, 1, 2, 4, 5}
SignedTags == {0, 1, 5}

\* impl_inner_from_serialize_only: the variant of a native type
TagOf(ty) == (CHOOSE i \in 1..Len(ZephyrValTypes) : ZephyrValTypes[i] = ty) - 1

\* size in bytes of a fixed-width native type
WidthOf(ty) == FixedWidth[TagOf(ty) + 1]

\* `num as $inner` on little-endian bytes: a narrower target keeps the low
\* bytes, a wider one is filled with the sign of a signed source and with
\* zeros for an unsigned one
CastAs(tag, ty, bytes) ==
    LET ws == Len(bytes)
        wt == WidthOf(ty)
        fill == IF tag \in SignedTags /\ bytes[ws] >= 128 THEN 255 ELSE 0
    IN  IF wt <= ws THEN SubSeq(bytes, 1, wt)
        ELSE bytes \o [i \in 1..(wt - ws) |-> fill]

\* impl From<ZephyrVal> for $inner: impl_inner_from_deserialize_numeric for
\* the integer types (every integer variant is cast, any other variant
\* panics), impl_inner_from_deserialize_generic for the others (the matching
\* variant or a panic)
ZephyrValInto(ty, zv) ==
    IF ty \in IntegerTypes
    THEN IF zv.tag \in IntegerTags
         THEN [ok |-> TRUE, val |-> CastAs(zv.tag, ty, zv.payload)]
         ELSE [ok |-> FALSE, val |-> <<>>]
    ELSE IF zv.tag = TagOf(ty) THEN [ok |-> TRUE, val |-> zv.payload]
         ELSE [ok |-> FALSE, val |-> <<>>]

\* bincode::serialize(&ZephyrVal) of the variant `tag` holding `payload`
SerializeZephyrVal(tag, payload) ==
    IF tag < 7 THEN <<tag, 0, 0, 0>> \o payload
    ELSE <<tag, 0, 0, 0>> \o EncU64(Len(payload)) \o payload

\* bincode::serialize(&ZephyrVal::I32(v)), v given by its four bytes
SerializeI32(v) == <<TagI32, 0, 0, 0>> \o v

-----------------------------------------------------------------------------
(* Ledger-object values in XDR (ScVal, Hash) and the plain bincode of the   *)
(* other field types.  A Hash is its 32 bytes.  An ScVal is held as         *)
(* <<arm>> \o body with the arms Bool (0), Void (1), U32 (3), Bytes (13)    *)
(* and Symbol (15): a flag, nothing, four bytes, the bytes, the symbol's    *)
(* characters (at most 32).  XDR writes                                     *)
(* a big-endian u32 discriminant, pads variable-length data with zeros to a *)
(* multiple of four bytes, and from_xdr rejects bytes left over.            *)

HashBytes == 32

XdrWord == 4

Pad(n) == (XdrWord - (n % XdrWord)) % XdrWord

Zeros(n) == [i \in 1..n |-> 0]

BeU32(n) == <<0, 0, (n \div 256) % 256, n % 256>>

ScValArms == {0, 1, 3, 13, 15}

\* WriteXdr::to_xdr for ScVal
ScValToXdr(v) ==
    LET arm == v[1]
        body == Tail(v)
    IN  BeU32(arm) \o
        (IF arm = 0 THEN BeU32(body[1])
         ELSE IF arm = 1 THEN <<>>
         ELSE IF arm = 3 THEN body
         ELSE BeU32(Len(body)) \o body \o Zeros(Pad(Len(body))))

\* ReadXdr::from_xdr for ScVal
ScValFromXdr(bytes) ==
    LET bad == [ok |-> FALSE, val |-> <<>>]
        rest == SubSeq(bytes, XdrWord + 1, Len(bytes))
    IN  IF Len(bytes) < XdrWord THEN bad
        ELSE IF SubSeq(bytes, 1, 3) # <<0, 0, 0>> \/ bytes[4] \notin ScValArms THEN bad
        ELSE IF bytes[4] = 0
        THEN IF Len(rest) = XdrWord /\ SubSeq(rest, 1, 3) = <<0, 0, 0>> /\ rest[4] \in {0, 1}
             THEN [ok |-> TRUE, val |-> <<0, rest[4]>>] ELSE bad
        ELSE IF bytes[4] = 1
        THEN IF rest = <<>> THEN [ok |-> TRUE, val |-> <<1>>] ELSE bad
        ELSE IF bytes[4] = 3
        THEN IF Len(rest) = XdrWord THEN [ok |-> TRUE, val |-> <<3>> \o rest] ELSE bad
        ELSE IF Len(rest) < XdrWord \/ SubSeq(rest, 1, 3) # <<0, 0, 0>> THEN bad
        ELSE LET n == rest[4]
             IN  IF (bytes[4] = 15 /\ n > 32) \/ Len(rest) # XdrWord + n + Pad(n) THEN bad
                 ELSE IF SubSeq(rest, XdrWord + n + 1, Len(rest)) # Zeros(Pad(n)) THEN bad
                 ELSE [ok |-> TRUE,
                       val |-> <<bytes[4]>> \o SubSeq(rest, XdrWord + 1, XdrWord + n)]

\* to_xdr of the field types the derive sends through XDR
ToXdr(ty, v) == IF ty = "Hash" THEN v ELSE ScValToXdr(v)

\* from_xdr of the field types the derive sends through XDR
FromXdr(ty, bytes) ==
    IF ty = "Hash"
    THEN IF Len(bytes) = HashBytes THEN [ok |-> TRUE, val |-> bytes]
         ELSE [ok |-> FALSE, val |-> <<>>]
    ELSE ScValFromXdr(bytes)

\* bincode::serialize(&self.field) of a field of any other type; the model's
\* one such type is Option<u32>, held as <<>> (None) or the four bytes of
\* Some's value: a one-byte tag, then the value
BincodeSerialize(ty, v) == IF v = <<>> THEN <<0>> ELSE <<1>> \o v

\* bincode::deserialize(&bytes.0) into Option<u32>: the tag must be 0 or 1;
\* bytes after the value are ignored
BincodeDeserialize(ty, bytes) ==
    IF Len(bytes) >= 1 /\ bytes[1] = 0 THEN [ok |-> TRUE, val |-> <<>>]
    ELSE IF Len(bytes) >= 5 /\ bytes[1] = 1 THEN [ok |-> TRUE, val |-> SubSeq(bytes, 2, 5)]
    ELSE [ok |-> FALSE, val |-> <<>>]

-----------------------------------------------------------------------------
(* Schema derivation: what #[derive(DatabaseInteract)] generates *)

\* the declarations: #[with_name(..)], the optional #[external(..)], the
\* fields and the first path segment of each field's type
RecordDecls ==
    {[name |-> "StoredEvent", table |-> "events", fields |-> <<"idx", "value">>,
      types |-> <<"i32", "i32">>,
      hasExternalAttr |-> FALSE, externalAttr |-> 0],
     [name |-> "SharedEvent", table |-> "events", fields |-> <<"idx", "value">>,
      types |-> <<"i32", "i32">>,
      hasExternalAttr |-> TRUE, externalAttr |-> 7],
     [name |-> "TypedEvent", table |-> "typed",
      fields |-> <<"seq", "topic1", "raw", "data", "hash", "extra">>,
      types |-> <<"u64", "String", "Vec", "ScVal", "Hash", "Option">>,
      hasExternalAttr |-> FALSE, externalAttr |-> 0],
     [name |-> "Sequence", table |-> "curr_seq", fields |-> <<"current">>,
      types |-> <<"u32">>,
      hasExternalAttr |-> FALSE, externalAttr |-> 0]}

DeclOf(name) == CHOOSE d \in RecordDecls : d.name = name

\* let (is_external, external) = if let Some(external) = external {..} else {(false, 0)}
database_interact_derive(decl) ==
    [table |-> decl.table, fields |-> decl.fields, types |-> decl.types,
     is_external |-> decl.hasExternalAttr,
     external |-> IF decl.hasExternalAttr THEN decl.externalAttr ELSE 0]

\* check_type!(field_type, "i64", "i128", "u64", "f64", "u32", "i32", "f32", "String", "Vec")
IsZephyrValType(ty) == \E i \in 1..Len(ZephyrValTypes) : ZephyrValTypes[i] = ty

\* check_type!(field_type, "ScVal", "Hash")
IsXdrType(ty) == ty \in {"ScVal", "Hash"}
serialize_type_untagged(ty, v) ==
    IF IsZephyrValType(ty) THEN v
    ELSE IF IsXdrType(ty) THEN ToXdr(ty, v)
    ELSE BincodeSerialize(ty, v)


\* serialize_type (and serialize_type_update, which is the same code): the
\* bytes of one field
serialize_type(ty, v) ==
    IF IsZephyrValType(ty) THEN SerializeZephyrVal(TagOf(ty), v)
    ELSE IF IsXdrType(ty) THEN ToXdr(ty, v)
    ELSE BincodeSerialize(ty, v)

\* &[#(#serialize_type),*]: the serialized fields of the record, in
\* declaration order
SerializeFields(rec) ==
    [i \in 1..Len(rec.vals) |-> serialize_type(rec.decl.types[i], rec.vals[i])]

\* the serialized fields are temporaries of the call expression: where each
\* one lies and how long it is
FieldSegments(fieldBytes) ==
    [i \in 1..Len(fieldBytes) |-> [ptr |-> 12288 + 64 * i, len |-> Len(fieldBytes[i])]]
deser_code_first_column(ty, row, i) ==
    IF Len(row) < 1 THEN [ok |-> FALSE, val |-> <<>>]
    ELSE IF IsZephyrValType(ty)
    THEN LET zv == DeserializeZephyrValChecked(row[1])
         IN  IF ~zv.ok THEN [ok |-> FALSE, val |-> <<>>] ELSE ZephyrValInto(ty, zv)
    ELSE IF IsXdrType(ty) THEN FromXdr(ty, row[1])
    ELSE BincodeDeserialize(ty, row[1])


\* deser_code and construction_code of the field at index i (from one):
\* row.row.get(i).unwrap(), then the deserializer its type selects, unwrapped
deser_code(ty, row, i) ==
    IF Len(row) < i THEN [ok |-> FALSE, val |-> <<>>]
    ELSE IF IsZephyrValType(ty)
    THEN LET zv == DeserializeZephyrValChecked(row[i])
         IN  IF ~zv.ok THEN [ok |-> FALSE, val |-> <<>>] ELSE ZephyrValInto(ty, zv)
    ELSE IF IsXdrType(ty) THEN FromXdr(ty, row[i])
    ELSE BincodeDeserialize(ty, row[i])

RECURSIVE DecodeFields(_, _, _)
\* #(#deser_code)* and Self { #(#construction_code)* } for fields i.. of one row
DecodeFields(types, row, i) ==
    IF i > Len(types) THEN [ok |-> TRUE, val |-> <<>>]
    ELSE LET v == deser_code(types[i], row, i)
             rest == DecodeFields(types, row, i + 1)
         IN  IF ~v.ok \/ ~rest.ok THEN [ok |-> FALSE, val |-> <<>>]
             ELSE [ok |-> TRUE, val |-> <<v.val>> \o rest.val]

RECURSIVE DecodeRows(_, _)
\* for row in rows.rows { .. result.push(Self { .. }) }
DecodeRows(types, rows) ==
    IF rows = <<>> THEN [ok |-> TRUE, val |-> <<>>]
    ELSE LET r == DecodeFields(types, Head(rows), 1)
         IN  IF ~r.ok THEN [ok |-> FALSE, val |-> <<>>]
             ELSE LET rest == DecodeRows(types, Tail(rows))
                  IN  IF ~rest.ok THEN [ok |-> FALSE, val |-> <<>>]
                      ELSE [ok |-> TRUE, val |-> <<r.val>> \o rest.val]

read_to_rows_degraded(decl, hasConds, conditions, reply) ==
    LET d == database_interact_derive(decl)
        rows == read_table(d.table, d.fields, d.is_external, d.external,
                           hasConds, conditions, reply)
    IN  IF rows.result.kind = "Panic" THEN rows
        ELSE IF rows.result.kind = "Err"
        THEN Outcome(rows.trace \o <<HostCall("tx_send_message", 0)>>, Ok(<<>>))
        ELSE LET recs == DecodeRows(d.types, rows.result.rows)
             IN  IF recs.ok THEN Outcome(rows.trace, Ok(recs.val))
                 ELSE Outcome(rows.trace, Panic)

\* generated read_to_rows; the environment's db_read hands its arguments to
\* Database::read_table
read_to_rows(decl, hasConds, conditions, reply) ==
    LET d == database_interact_derive(decl)
        rows == read_table(d.table, d.fields, d.is_external, d.external,
                           hasConds, conditions, reply)
    IN  IF rows.result.kind = "Panic" THEN rows
        ELSE IF rows.result.kind = "Err"
        THEN Outcome(rows.trace \o <<HostCall("tx_send_message", 0)>>, Panic)
        ELSE LET recs == DecodeRows(d.types, rows.result.rows)
             IN  IF recs.ok THEN Outcome(rows.trace, Ok(recs.val))
                 ELSE Outcome(rows.trace, Panic)

\* generated update: env.db_update(..).unwrap(); rec is self, a declaration
\* and the values of its fields
update(rec, conditions, reply) ==
    LET d == database_interact_derive(rec.decl)
        out == update_table(d.table, d.fields, FieldSegments(SerializeFields(rec)),
                            conditions, reply)
    IN  IF out.result.kind = "Ok" THEN out ELSE Outcome(out.trace, Panic)

put_twice(rec, reply) ==
    LET d == database_interact_derive(rec.decl)
        out == write_table(d.table, d.fields, FieldSegments(SerializeFields(rec)), reply)
    IN  IF out.result.kind = "Ok" THEN Outcome(out.trace \o out.trace, out.result)
        ELSE Outcome(out.trace, Panic)


\* generated put: env.db_write(..).unwrap()
put(rec, reply) ==
    LET d == database_interact_derive(rec.decl)
        out == write_table(d.table, d.fields, FieldSegments(SerializeFields(rec)), reply)
    IN  IF out.result.kind = "Ok" THEN out ELSE Outcome(out.trace, Panic)

-----------------------------------------------------------------------------
(* Table query wrapper *)

TableQueryWrapperNew(action) == [made |-> TRUE, action |-> action, conditions |-> <<>>]

\* the Vec the condition owns: bytes.to_vec()
OwnedBytes(k, bytes) == [ptr |-> 8192 + 16 * k, len |-> bytes.len]

column_equal_to_bytes(self, column, bytes) ==
    [self EXCEPT !.conditions =
        Append(@, [col |-> column, val |-> OwnedBytes(Len(@) + 1, bytes)])]

column_equal_to_xdr_only(self, column, xdr) ==
    [self EXCEPT !.conditions =
        <<[col |-> column,
           val |-> [ptr |-> 8192 + 16, len |-> Len(ScValToXdr(xdr))],
           bytes |-> ScValToXdr(xdr)]>>]

\* column_equal_to_xdr: the condition owns xdr.to_xdr(Limits::none())
column_equal_to_xdr(self, column, xdr) ==
    LET bytes == ScValToXdr(xdr)
    IN  [self EXCEPT !.conditions =
            Append(@, [col |-> column,
                       val |-> [ptr |-> 8192 + 16 * (Len(@) + 1), len |-> Len(bytes)],
                       bytes |-> bytes])]

execute_unchecked(self, interact, reply) ==
    LET out == update(interact, self.conditions, reply)
    IN  IF out.result.kind = "Panic" THEN out ELSE Outcome(out.trace, Ok(<<>>))


execute(self, interact, reply) ==
    IF self.action # "Update" THEN Outcome(<<>>, Err("ReadOnUpdateAction"))
    ELSE LET out == update(interact, self.conditions, reply)
         IN  IF out.result.kind = "Panic" THEN out ELSE Outcome(out.trace, Ok(<<>>))

\* EnvClient::empty(): a client without ledger meta; it asks the host nothing
EnvClientEmpty == <<>>

read_env_new(self, decl, reply) ==
    IF self.action # "Read"
    THEN Outcome(<<HostCall("read_ledger_meta", 0)>>, Err("UpdateOnReadAction"))
    ELSE read_to_rows(decl, TRUE, self.conditions, reply)

\* read: the client is made first, which leaves no event, then the action is
\* checked
read(self, decl, reply) ==
    IF self.action # "Read" THEN Outcome(EnvClientEmpty, Err("UpdateOnReadAction"))
    ELSE read_to_rows(decl, TRUE, self.conditions, reply)

-----------------------------------------------------------------------------
(* Host value bridge (EnvClient).  A host value is its 64-bit payload, kept *)
(* as a small number; `reply` is what the host call answers.                *)

\* to_scval: valid_host_val_to_scval(payload), the status unwrapped, then the
\* XDR at (offset, size) read and unwrapped
to_scval(payload, reply) ==
    LET tr == <<HostCall("valid_host_val_to_scval", payload)>>
        st == express_from_status(reply.status)
        xdr == ScValFromXdr(reply.buf)
    IN  IF st.kind # "Ok" THEN Outcome(tr, Panic)
        ELSE IF xdr.ok THEN Outcome(tr, Ok(<<xdr.val>>))
        ELSE Outcome(tr, Panic)
scval_to_valid_host_val_conversion(scval, reply) ==
    LET tr == <<HostCall("scval_to_valid_host_val",
                         [ptr |-> 16384, len |-> Len(ScValToXdr(scval))])>>
        st == express_from_status(reply.status)
    IN  IF st.kind = "Panic" THEN Outcome(tr, Panic)
        ELSE IF st.kind = "Err" THEN Outcome(tr, Err("Conversion"))
        ELSE IF reply.typed THEN Outcome(tr, Ok(<<<<reply.val>>>>))
        ELSE Outcome(tr, Panic)


\* scval_to_valid_host_val: the XDR of the value handed over by (offset,
\* size); express_from_status(status)? returns the error of the status; the
\* payload answered is converted with try_from_val(..).unwrap()
scval_to_valid_host_val(scval, reply) ==
    LET tr == <<HostCall("scval_to_valid_host_val",
                         [ptr |-> 16384, len |-> Len(ScValToXdr(scval))])>>
        st == express_from_status(reply.status)
    IN  IF st.kind # "Ok" THEN Outcome(tr, st)
        ELSE IF reply.typed THEN Outcome(tr, Ok(<<<<reply.val>>>>))
        ELSE Outcome(tr, Panic)

\* from_scval: self.scval_to_valid_host_val(scval).unwrap()
from_scval(scval, reply) ==
    LET out == scval_to_valid_host_val(scval, reply)
    IN  IF out.result.kind = "Ok" THEN out ELSE Outcome(out.trace, Panic)

-----------------------------------------------------------------------------
(* Ledger meta reader.  A ledger close is its format (0 or 1), its          *)
(* transaction set (the flat `txs` of V0, the phases of components of       *)
(* envelopes of V1) and tx_processing.  An envelope is its kind and the     *)
(* transaction it carries; a transaction's hash is the digest of the        *)
(* network id and the transaction, kept as that pair.  A result meta is the *)
(* hash of its transaction, whether the result is a success, whether the    *)
(* meta is TransactionMeta::V3, and, of a V3 meta, the Soroban events (if   *)
(* soroban_meta is Some) and the changes of each operation.                 *)

RECURSIVE Concat(_)
Concat(seqs) == IF seqs = <<>> THEN <<>> ELSE Head(seqs) \o Concat(Tail(seqs))

\* newtork_id: to_scval of the network id, which must be ScVal::Bytes of 32
\* bytes
newtork_id(reply) ==
    LET out == to_scval(0, reply)
    IN  IF out.result.kind # "Ok" THEN [ok |-> FALSE, val |-> <<>>]
        ELSE LET v == out.result.rows[1]
             IN  IF v[1] = 13 /\ Len(v) = 1 + HashBytes
                 THEN [ok |-> TRUE, val |-> Tail(v)]
                 ELSE [ok |-> FALSE, val |-> <<>>]

\* txhash_by_transaction: Sha256 of the signature payload of a Tx or
\* TxFeeBump envelope; any other envelope panics
txhash_by_transaction(tx_envelope, reply) ==
    LET network == newtork_id(reply)
    IN  IF ~network.ok \/ tx_envelope.kind \notin {"Tx", "TxFeeBump"}
        THEN [ok |-> FALSE, hash |-> <<>>]
        ELSE [ok |-> TRUE, hash |-> <<network.val, tx_envelope.tx>>]

\* envelopes
envelopes(ledger) ==
    IF ledger.version = 0 THEN ledger.txs
    ELSE Concat(Concat(ledger.phases))

\* tx_processing
tx_processing(ledger) == ledger.processing

\* txs.iter().enumerate() of every component of every phase, in order
EnumeratedEnvelopes(ledger) ==
    LET comps == Concat(ledger.phases)
    IN  Concat([c \in 1..Len(comps) |->
                   [i \in 1..Len(comps[c]) |-> [idx |-> i - 1, env |-> comps[c][i]]]])

\* for meta in processing.clone() { if hash == txhash { tprocessing = Some(meta) } }
LastWithHash(processing, txhash) ==
    LET at == {i \in 1..Len(processing) : processing[i].hash = txhash}
    IN  IF at = {} THEN [some |-> FALSE, meta |-> <<>>]
        ELSE [some |-> TRUE,
              meta |-> processing[CHOOSE i \in at : \A j \in at : j <= i]]

RECURSIVE ComposeEach(_, _, _)
\* the loop body for each enumerated envelope: the hash, the search, and
\* tprocessing.unwrap_or(processing[idx].clone()), whose argument is
\* evaluated whether or not it is used
ComposeEach(items, processing, reply) ==
    IF items = <<>> THEN [ok |-> TRUE, val |-> <<>>]
    ELSE LET h == txhash_by_transaction(Head(items).env, reply)
         IN  IF ~h.ok \/ Head(items).idx + 1 > Len(processing)
             THEN [ok |-> FALSE, val |-> <<>>]
             ELSE LET found == LastWithHash(processing, h.hash)
                      rest == ComposeEach(Tail(items), processing, reply)
                      meta == IF found.some THEN found.meta
                              ELSE processing[Head(items).idx + 1]
                  IN  IF ~rest.ok THEN rest
                      ELSE [ok |-> TRUE,
                            val |-> <<[env |-> Head(items).env, meta |-> meta]>>
                                    \o rest.val]

\* envelopes_with_meta: nothing for V0 (todo), the composed pairs for V1
envelopes_with_meta(ledger, reply) ==
    IF ledger.version = 0 THEN Ok(<<>>)
    ELSE LET composed == ComposeEach(EnumeratedEnvelopes(ledger),
                                     tx_processing(ledger), reply)
         IN  IF composed.ok THEN Ok(composed.val) ELSE Panic

\* the changes of the operations of the V3 metas among `metas`, by kind
EntryChanges(metas) ==
    LET v3 == SelectSeq(metas, LAMBDA m : m.v3)
        changes == Concat([k \in 1..Len(v3) |-> Concat(v3[k].operations)])
        Of(kind) == LET mine == SelectSeq(changes, LAMBDA c : c.kind = kind)
                    IN  [k \in 1..Len(mine) |-> mine[k].entry]
    IN  [state |-> Of("State"), removed |-> Of("Removed"),
         updated |-> Of("Updated"), created |-> Of("Created")]

\* v1_success_ledger_entries: V0 gives nothing; V1 the changes of the metas
\* whose result is TxSuccess or TxFeeBumpInnerSuccess
v1_success_ledger_entries(ledger) ==
    IF ledger.version = 0 THEN EntryChanges(<<>>)
    ELSE EntryChanges(SelectSeq(ledger.processing, LAMBDA m : m.success))
v1_ledger_entries_any_format(ledger) == EntryChanges(ledger.processing)


\* v1_ledger_entries: V0 gives nothing; V1 the changes of all metas
v1_ledger_entries(ledger) ==
    IF ledger.version = 0 THEN EntryChanges(<<>>)
    ELSE EntryChanges(ledger.processing)

\* soroban_events: the events of the V3 metas of self.tx_processing() whose
\* soroban_meta is Some, whatever the format
soroban_events(ledger) ==
    LET with == SelectSeq(tx_processing(ledger), LAMBDA m : m.v3 /\ m.soroban)
    IN  Concat([k \in 1..Len(with) |-> with[k].events])

-----------------------------------------------------------------------------
(* Conditions with their bytes, and the guest memory a host call reads *)
column_equal_to_untagged(self, column, ty, argument) ==
    [self EXCEPT !.conditions =
        Append(@, [col |-> column,
                   val |-> [ptr |-> 8192 + 16 * (Len(@) + 1), len |-> Len(argument)],
                   bytes |-> argument])]


\* column_equal_to: the argument becomes a ZephyrVal and is serialized; the
\* condition owns the bytes
column_equal_to(self, column, ty, argument) ==
    LET bytes == SerializeZephyrVal(TagOf(ty), argument)
    IN  [self EXCEPT !.conditions =
            Append(@, [col |-> column,
                       val |-> [ptr |-> 8192 + 16 * (Len(@) + 1), len |-> Len(bytes)],
                       bytes |-> bytes])]

\* what lies at the addresses a call hands to the host: the bytes the
\* conditions own and the serialized fields
GuestMemory(conds, fieldBytes) ==
    [p \in {conds[k].val.ptr : k \in 1..Len(conds)}
           \cup {FieldSegments(fieldBytes)[i].ptr : i \in 1..Len(fieldBytes)} |->
        IF \E k \in 1..Len(conds) : conds[k].val.ptr = p
        THEN conds[CHOOSE k \in 1..Len(conds) : conds[k].val.ptr = p].bytes
        ELSE fieldBytes[CHOOSE i \in 1..Len(fieldBytes) :
                            FieldSegments(fieldBytes)[i].ptr = p]]

-----------------------------------------------------------------------------
(* In-memory gateway double.  The host is not part of the sources: the      *)
(* double pops the words of a call in the order the gateway pushed them,    *)
(* reads the segments from guest memory, and keeps the rows written, each   *)
(* with its table and columns.  A read returns the rows of the table that   *)
(* meet every condition (operator 0: the column's bytes equal the           *)
(* operand), in the order they were written.                                *)

\* the words pushed before the host call of a trace
StackWords(tr) ==
    LET pushes == SelectSeq(tr, LAMBDA e : e.ev = "push")
    IN  [i \in 1..Len(pushes) |-> pushes[i].arg]

\* the host calls of a trace named f
CallsOf(tr, f) == Len(SelectSeq(tr, LAMBDA e : e.ev = f))

\* a counted list of (pointer, length) pairs at the front of the words
PopPairs(words) ==
    [pairs |-> [k \in 1..words[1] |-> [ptr |-> words[2 * k], len |-> words[2 * k + 1]]],
     rest |-> SubSeq(words, 2 + 2 * words[1], Len(words))]

\* the table and the counted column list at the front of the words
PopHead(words) ==
    [table |-> words[1], cols |-> SubSeq(words, 3, 2 + words[2]),
     rest |-> SubSeq(words, 3 + words[2], Len(words))]

\* the condition block: a count, (column, operator) per condition, then the
\* counted operands; no words, no conditions
PopConditions(words, mem) ==
    IF words = <<>> THEN <<>>
    ELSE LET n == words[1]
             args == PopPairs(SubSeq(words, 2 + 2 * n, Len(words))).pairs
         IN  [k \in 1..n |-> [col |-> words[2 * k], operator |-> words[2 * k + 1],
                              bytes |-> SubSeq(mem[args[k].ptr], 1, args[k].len)]]

ColumnOf(entry, col) ==
    entry.row[CHOOSE j \in 1..Len(entry.cols) : entry.cols[j] = col]

Meets(entry, conds) ==
    \A k \in 1..Len(conds) :
        /\ \E j \in 1..Len(entry.cols) : entry.cols[j] = conds[k].col
        /\ conds[k].operator = 0
        /\ ColumnOf(entry, conds[k].col) = conds[k].bytes

\* write_raw: one row appended
HostWrite(rows, words, mem) ==
    LET head == PopHead(words)
        segs == PopPairs(head.rest).pairs
    IN  Append(rows, [table |-> head.table, cols |-> head.cols,
                      row |-> [k \in 1..Len(segs) |->
                                  SubSeq(mem[segs[k].ptr], 1, segs[k].len)]])

\* read_raw and read_as_id: the selected rows, their requested columns
HostRead(rows, words, mem) ==
    LET head == PopHead(words)
        conds == PopConditions(head.rest, mem)
        found == SelectSeq(rows, LAMBDA e :
                     /\ e.table = head.table
                     /\ \A j \in 1..Len(head.cols) :
                           \E i \in 1..Len(e.cols) : e.cols[i] = head.cols[j]
                     /\ Meets(e, conds))
    IN  [k \in 1..Len(found) |->
            [j \in 1..Len(head.cols) |-> ColumnOf(found[k], head.cols[j])]]

\* update_raw: the columns of every selected row replaced
HostUpdate(rows, words, mem) ==
    LET head == PopHead(words)
        data == PopPairs(head.rest)
        conds == PopConditions(data.rest, mem)
    IN  [k \in 1..Len(rows) |->
            IF rows[k].table = head.table /\ Meets(rows[k], conds)
            THEN [rows[k] EXCEPT !.row =
                    [j \in 1..Len(rows[k].cols) |->
                        IF \E i \in 1..Len(head.cols) : head.cols[i] = rows[k].cols[j]
                        THEN LET i == CHOOSE i \in 1..Len(head.cols) :
                                          head.cols[i] = rows[k].cols[j]
                             IN  SubSeq(mem[data.pairs[i].ptr], 1, data.pairs[i].len)
                        ELSE @[j]]]
            ELSE rows[k]]

-----------------------------------------------------------------------------
(* Inputs *)

\* byte slices of guest memory, by address and length
Slices == {[ptr |-> 4096, len |-> 0], [ptr |-> 4112, len |-> 5]}

Conditions == {[col |-> "value", val |-> [ptr |-> 8192, len |-> 5]],
               [col |-> "idx", val |-> [ptr |-> 8208, len |-> 9]],
               [col |-> "bad name", val |-> [ptr |-> 8224, len |-> 5]]}

TableNames == {"events", "bad name"}
ColumnNames == {"idx", "value", "bad name"}

ExternalIds == {0, 7}

\* statuses the host answers a gateway call with: the defined codes, an
\* undefined one, and one that is 1 modulo 2^32
HostStatuses == {I64(n) : n \in 0..6} \cup {<<0, 1, 0, 1>>}

SampleRows == {<<>>, << <<>> >>, << <<<<7>>>> >>, << <<<<7, 9>>, <<>>>>, <<<<8>>>> >>}

DropLast(s) == SubSeq(s, 1, Len(s) - 1)

\* what the host leaves at (offset, size): a serialized table, one cut short,
\* one followed by more bytes, or nothing
HostBuffers ==
    {SerializeTableRows(r) : r \in SampleRows}
    \cup {DropLast(SerializeTableRows(r)) : r \in SampleRows}
    \cup {SerializeTableRows(<<>>) \o <<1>>, <<>>, <<1, 0, 0, 0, 0, 0, 0, 1>>}

\* native values: little-endian integers of four and eight bytes
Le32(n) == <<n, 0, 0, 0>>
Le64(n) == <<n, 0, 0, 0, 0, 0, 0, 0>>

Record(name, vals) == [decl |-> DeclOf(name), vals |-> vals]

\* records with a field of every category: numeric, text, opaque bytes,
\* ledger-object values (ScVal, Hash), and a type of no category
TypedRecords ==
    <<Record("TypedEvent", <<Le64(7), <<97>>, <<>>, <<1>>, Zeros(HashBytes), <<>>>>),
      Record("TypedEvent", <<[i \in 1..8 |-> 255], <<97, 98, 99>>, <<0, 255>>,
                             <<15, 97, 98, 99>>, [i \in 1..HashBytes |-> i], Le32(5)>>),
      Record("TypedEvent", <<Le64(0), <<>>, <<1>>, <<3, 0, 0, 1, 0>>,
                             Zeros(HashBytes), Le32(0)>>),
      Record("TypedEvent", <<Le64(1), <<97, 98, 99, 100>>, <<7>>, <<0, 1>>,
                             Zeros(HashBytes), <<255, 255, 255, 255>>>>)>>

\* the records the guest code holds: those of the test-conditions functions
\* add, add2 and add32 and one with a negative field, the typed records, and
\* the ledger sequences of the crate example
SampleRecords ==
    {Record("StoredEvent", <<Le32(1), Le32(10)>>),
     Record("StoredEvent", <<Le32(2), Le32(20)>>),
     Record("StoredEvent", <<Le32(3), Le32(20)>>),
     Record("StoredEvent", <<<<255, 255, 255, 255>>, Le32(10)>>),
     Record("SharedEvent", <<Le32(1), Le32(10)>>),
     Record("Sequence", <<Le32(1)>>),
     Record("Sequence", <<Le32(2)>>)}
    \cup {TypedRecords[i] : i \in 1..Len(TypedRecords)}

\* rows of tables: the rows of the records above, i32 columns as ZephyrVal, a
\* text column, a wider and an unsigned integer column, a row one column
\* short, a row one column long, a column that is no ZephyrVal
I32Col(n) == SerializeI32(Le32(n))
TextCol == <<7, 0, 0, 0>> \o EncU64(1) \o <<97>>
WideCol == SerializeZephyrVal(1, <<1, 0, 0, 0, 1, 0, 0, 0>>)

RecordRows ==
    {<<>>,
     << <<I32Col(1), I32Col(10)>> >>,
     << <<I32Col(1), I32Col(10)>>, <<I32Col(2), I32Col(20)>> >>,
     << <<I32Col(2), I32Col(20)>>, <<I32Col(1), I32Col(10)>> >>,
     << <<I32Col(2)>> >>,
     << <<I32Col(2), I32Col(20), I32Col(3)>> >>,
     << <<I32Col(2), TextCol>> >>,
     << <<I32Col(2), WideCol>> >>,
     << <<I32Col(2), <<5, 0>> >> >>}
    \cup {<<SerializeFields(r)>> : r \in SampleRecords}
    \cup {<<SerializeFields(TypedRecords[2]), SerializeFields(TypedRecords[1])>>}

RecordBuffers ==
    {SerializeTableRows(r) : r \in RecordRows}
    \cup {DropLast(SerializeTableRows(<< <<I32Col(1), I32Col(10)>> >>))}

\* columns holding a ZephyrVal of every variant: small, negative or largest,
\* and beyond 32 bits for the integers, 1.0 for the floats, a text and bytes;
\* and a column that holds no ZephyrVal
SampleColumns ==
    {SerializeZephyrVal(0, Le64(1) \o Zeros(8)),
     SerializeZephyrVal(0, [i \in 1..16 |-> 255]),
     SerializeZephyrVal(0, <<1, 0, 0, 0, 1, 0, 0, 0>> \o Zeros(8)),
     SerializeZephyrVal(1, Le64(1)),
     SerializeZephyrVal(1, [i \in 1..8 |-> 255]),
     WideCol,
     SerializeZephyrVal(2, Le64(1)),
     SerializeZephyrVal(2, [i \in 1..8 |-> 255]),
     SerializeZephyrVal(2, <<1, 0, 0, 0, 1, 0, 0, 0>>),
     SerializeZephyrVal(3, <<0, 0, 0, 0, 0, 0, 240, 63>>),
     SerializeZephyrVal(4, Le32(1)),
     SerializeZephyrVal(4, <<255, 255, 255, 255>>),
     I32Col(1),
     SerializeI32(<<255, 255, 255, 255>>),
     SerializeZephyrVal(6, <<0, 0, 128, 63>>),
     TextCol,
     SerializeZephyrVal(8, <<1>>),
     <<5, 0>>}

\* the arguments of column_equal_to: a column, the argument's type, the
\* argument
TypedConditions ==
    {[col |-> "value", ty |-> "i32", arg |-> Le32(20)],
     [col |-> "value", ty |-> "i32", arg |-> Le32(10)],
     [col |-> "idx", ty |-> "i32", arg |-> Le32(2)],
     [col |-> "current", ty |-> "u32", arg |-> Le32(1)]}

RECURSIVE BuildConditions(_, _)
\* env.read_filter().column_equal_to(..).column_equal_to(..)
BuildConditions(self, tcs) ==
    IF tcs = <<>> THEN self
    ELSE BuildConditions(column_equal_to(self, Head(tcs).col, Head(tcs).ty, Head(tcs).arg),
                         Tail(tcs))

\* ScVal values of every arm of the model, and what the host leaves at
\* (offset, size) for to_scval: the XDR of one, nothing, an unknown arm
SampleScVals == {<<0, 1>>, <<1>>, <<3, 0, 0, 1, 0>>, <<15, 97, 98, 99>>}

XdrBuffers == {ScValToXdr(v) : v \in SampleScVals} \cup {<<>>, <<0, 0, 0, 99>>}

\* payloads of host values
Payloads == {4, 89}

\* the network id the host knows, and what it answers newtork_id's to_scval
\* with: the id as ScVal::Bytes, or a value that is no Bytes
NetworkId == Zeros(HashBytes)

NetworkBuffers == {ScValToXdr(<<13>> \o NetworkId), ScValToXdr(<<1>>)}

Envelope(kind, tx) == [kind |-> kind, tx |-> tx]

\* transaction sets: phases of components of envelopes
TxSets ==
    {<<>>,
     << << <<Envelope("Tx", 1)>> >> >>,
     << << <<Envelope("Tx", 1), Envelope("TxFeeBump", 2)>> >> >>,
     << << <<Envelope("TxFeeBump", 2)>>, <<Envelope("Tx", 1)>> >> >>,
     << << <<Envelope("Tx", 1)>> >>, << <<Envelope("TxFeeBump", 2)>> >> >>,
     << << <<Envelope("TxV0", 1)>> >> >>,
     << << <<Envelope("Tx", 3)>>, <<Envelope("Tx", 4)>> >> >>,
     << << <<Envelope("Tx", 3), Envelope("Tx", 4)>> >> >>}

Change(kind, entry) == [kind |-> kind, entry |-> entry]

\* result metas of transactions 1 and 2: the transaction hash, whether the
\* result is TxSuccess or TxFeeBumpInnerSuccess, the changes of
\* fee_processing, and of tx_apply_processing whether it is
\* TransactionMeta::V3, whether it has Soroban meta, its events and the
\* changes of its operations
ResultMetas ==
    {[hash |-> <<NetworkId, 1>>, success |-> TRUE, v3 |-> TRUE, soroban |-> TRUE,
      fee |-> <<Change("State", 10)>>,
      events |-> <<"e1", "e2">>,
      operations |-> << <<Change("Created", 11)>>,
                        <<Change("State", 12), Change("Updated", 13)>> >>],
     [hash |-> <<NetworkId, 2>>, success |-> FALSE, v3 |-> TRUE, soroban |-> FALSE,
      fee |-> <<>>,
      events |-> <<>>,
      operations |-> << <<Change("Removed", 21)>> >>],
     [hash |-> <<NetworkId, 1>>, success |-> TRUE, v3 |-> FALSE, soroban |-> FALSE,
      fee |-> <<>>,
      events |-> <<>>, operations |-> << <<Change("Created", 31)>> >>],
     [hash |-> <<NetworkId, 2>>, success |-> TRUE, v3 |-> TRUE, soroban |-> TRUE,
      fee |-> <<>>,
      events |-> <<"e3">>, operations |-> <<>>]}

\* ledger closes of both formats
Ledgers ==
    {[version |-> v, txs |-> IF v = 0 THEN Concat(Concat(t)) ELSE <<>>,
      phases |-> IF v = 0 THEN <<>> ELSE t, processing |-> p] :
        v \in {0, 1}, t \in TxSets, p \in SeqsUpTo(ResultMetas, MaxMetas)}

RecordReplies == {[status |-> st, buf |-> b] : st \in HostStatuses, b \in RecordBuffers}

\* what a read host call answers: a status and the bytes at (offset, size)
Replies == {[status |-> st, buf |-> b] : st \in HostStatuses, b \in HostBuffers}

StatusReplies == {[status |-> st, buf |-> <<>>] : st \in HostStatuses}

-----------------------------------------------------------------------------
(* State *)

NoCall == [table |-> "", cols |-> <<>>, segs |-> <<>>, hasConds |-> FALSE,
           conds |-> <<>>, hasExt |-> FALSE, ext |-> 0,
           status |-> I64(0), buf |-> <<>>, rtype |-> "", rec |-> <<>>,
           ty |-> "", val |-> <<>>]

\* the command line tool before a command: where it is in the command, the
\* parsed zephyr.toml, the steps begun, the requests sent with their answers,
\* and how the command ended
NoCommand == [pc |-> "idle", force |-> FALSE, config |-> <<>>, steps |-> <<>>,
              requests |-> <<>>, error |-> "none"]

Init ==
    /\ op = "none"
    /\ call = NoCall
    /\ trace = <<>>
    /\ result = NoResult
    /\ builder = [made |-> FALSE, action |-> "Read", conditions |-> <<>>]
    /\ store = <<>>
    /\ puts = <<>>
    /\ procs = <<>>
    /\ cli = NoCommand

\* the guest is between two operations (a panic aborts the invocation, and
\* nothing more runs in it)
Running == op = "none"

ExpressFromStatus ==
    /\ Running
    /\ \E status \in StatusValues :
          /\ op' = "express_from_status"
          /\ call' = [NoCall EXCEPT !.status = status]
          /\ trace' = <<>>
          /\ result' = express_from_status(status)
    /\ UNCHANGED <<builder, store, puts, procs, cli>>

ReadTable ==
    /\ Running
    /\ \E table \in TableNames, cols \in SeqsUpTo(ColumnNames, MaxCols),
          hasExt \in BOOLEAN, ext \in ExternalIds, hasConds \in BOOLEAN,
          conds \in SeqsUpTo(Conditions, MaxConds), reply \in Replies :
          /\ ~hasExt => ext = 0
          /\ ~hasConds => conds = <<>>
          /\ LET out == read_table(table, cols, hasExt, ext, hasConds, conds, reply)
             IN  /\ op' = "read_table"
                 /\ call' = [NoCall EXCEPT !.table = table, !.cols = cols,
                                !.hasExt = hasExt, !.ext = ext,
                                !.hasConds = hasConds, !.conds = conds,
                                !.status = reply.status, !.buf = reply.buf]
                 /\ trace' = out.trace
                 /\ result' = out.result
    /\ UNCHANGED <<builder, store, puts, procs, cli>>

WriteTable ==
    /\ Running
    /\ \E table \in TableNames, cols \in SeqsUpTo(ColumnNames, MaxCols),
          segs \in SeqsUpTo(Slices, MaxSegs), reply \in StatusReplies :
          LET out == write_table(table, cols, segs, reply)
          IN  /\ op' = "write_table"
              /\ call' = [NoCall EXCEPT !.table = table, !.cols = cols,
                             !.segs = segs, !.status = reply.status]
              /\ trace' = out.trace
              /\ result' = out.result
    /\ UNCHANGED <<builder, store, puts, procs, cli>>

UpdateTable ==
    /\ Running
    /\ \E table \in TableNames, cols \in SeqsUpTo(ColumnNames, MaxCols),
          segs \in SeqsUpTo(Slices, MaxSegs),
          conds \in SeqsUpTo(Conditions, MaxConds), reply \in StatusReplies :
          LET out == update_table(table, cols, segs, conds, reply)
          IN  /\ op' = "update_table"
              /\ call' = [NoCall EXCEPT !.table = table, !.cols = cols,
                             !.segs = segs, !.hasConds = TRUE, !.conds = conds,
                             !.status = reply.status]
              /\ trace' = out.trace
              /\ result' = out.result
    /\ UNCHANGED <<builder, store, puts, procs, cli>>

NewBuilder ==
    /\ Running
    /\ ~builder.made
    /\ \E action \in {"Read", "Update"} : builder' = TableQueryWrapperNew(action)
    /\ UNCHANGED <<op, call, trace, result, store, puts, procs, cli>>

ColumnEqualToBytes ==
    /\ Running
    /\ builder.made
    /\ Len(builder.conditions) < MaxConds
    /\ \E column \in ColumnNames, bytes \in Slices :
          builder' = column_equal_to_bytes(builder, column, bytes)
    /\ UNCHANGED <<op, call, trace, result, store, puts, procs, cli>>

Execute ==
    /\ Running
    /\ builder.made
    /\ \E interact \in SampleRecords, reply \in StatusReplies :
          LET out == execute(builder, interact, reply)
              decl == interact.decl
          IN  /\ op' = "execute"
              /\ call' = [NoCall EXCEPT !.rtype = decl.name, !.table = decl.table,
                             !.cols = decl.fields, !.rec = interact.vals,
                             !.segs = FieldSegments(SerializeFields(interact)),
                             !.hasConds = TRUE,
                             !.conds = builder.conditions, !.status = reply.status]
              /\ trace' = out.trace
              /\ result' = out.result
    /\ UNCHANGED <<builder, store, puts, procs, cli>>

BuilderRead ==
    /\ Running
    /\ builder.made
    /\ \E decl \in RecordDecls, reply \in RecordReplies :
          LET out == read(builder, decl, reply)
          IN  /\ op' = "read"
              /\ call' = [NoCall EXCEPT !.rtype = decl.name, !.table = decl.table,
                             !.cols = decl.fields, !.hasConds = TRUE,
                             !.conds = builder.conditions,
                             !.hasExt = decl.hasExternalAttr, !.ext = decl.externalAttr,
                             !.status = reply.status, !.buf = reply.buf]
              /\ trace' = out.trace
              /\ result' = out.result
    /\ UNCHANGED <<builder, store, puts, procs, cli>>

\* read_to_rows called by guest code directly, which builds no wrapper
ReadToRows ==
    /\ Running
    /\ ~builder.made
    /\ \E decl \in RecordDecls, hasConds \in BOOLEAN,
          conds \in SeqsUpTo(Conditions, MaxConds), reply \in RecordReplies :
          /\ ~hasConds => conds = <<>>
          /\ LET out == read_to_rows(decl, hasConds, conds, reply)
             IN  /\ op' = "read_to_rows"
                 /\ call' = [NoCall EXCEPT !.rtype = decl.name, !.table = decl.table,
                                !.cols = decl.fields, !.hasConds = hasConds,
                                !.conds = conds,
                                !.hasExt = decl.hasExternalAttr, !.ext = decl.externalAttr,
                                !.status = reply.status, !.buf = reply.buf]
                 /\ trace' = out.trace
                 /\ result' = out.result
    /\ UNCHANGED <<builder, store, puts, procs, cli>>

Put ==
    /\ Running
    /\ ~builder.made
    /\ \E rec \in SampleRecords, reply \in StatusReplies :
          LET out == put(rec, reply)
              decl == rec.decl
          IN  /\ op' = "put"
              /\ call' = [NoCall EXCEPT !.rtype = decl.name, !.table = decl.table,
                             !.cols = decl.fields, !.rec = rec.vals,
                             !.segs = FieldSegments(SerializeFields(rec)),
                             !.status = reply.status]
              /\ trace' = out.trace
              /\ result' = out.result
    /\ UNCHANGED <<builder, store, puts, procs, cli>>

Update ==
    /\ Running
    /\ ~builder.made
    /\ \E rec \in SampleRecords, conds \in SeqsUpTo(Conditions, MaxConds),
          reply \in StatusReplies :
          LET out == update(rec, conds, reply)
              decl == rec.decl
          IN  /\ op' = "update"
              /\ call' = [NoCall EXCEPT !.rtype = decl.name, !.table = decl.table,
                             !.cols = decl.fields, !.rec = rec.vals,
                             !.segs = FieldSegments(SerializeFields(rec)),
                             !.hasConds = TRUE,
                             !.conds = conds, !.status = reply.status]
              /\ trace' = out.trace
              /\ result' = out.result
    /\ UNCHANGED <<builder, store, puts, procs, cli>>

\* one field of a record read from one column: deser_code and
\* construction_code of a field of a ZephyrVal type
DecodeColumn ==
    /\ Running
    /\ ~builder.made
    /\ \E i \in 1..Len(ZephyrValTypes), col \in SampleColumns :
          LET v == deser_code(ZephyrValTypes[i], <<col>>, 1)
          IN  /\ op' = "decode_column"
              /\ call' = [NoCall EXCEPT !.ty = ZephyrValTypes[i], !.val = col]
              /\ trace' = <<>>
              /\ result' = IF v.ok THEN Ok(<<v.val>>) ELSE Panic
    /\ UNCHANGED <<builder, store, puts, procs, cli>>

ToScVal ==
    /\ Running
    /\ ~builder.made
    /\ \E payload \in Payloads, status \in HostStatuses, buf \in XdrBuffers :
          LET out == to_scval(payload, [status |-> status, buf |-> buf])
          IN  /\ op' = "to_scval"
              /\ call' = [NoCall EXCEPT !.val = <<payload>>, !.status = status,
                             !.buf = buf]
              /\ trace' = out.trace
              /\ result' = out.result
    /\ UNCHANGED <<builder, store, puts, procs, cli>>

ScValToValidHostVal ==
    /\ Running
    /\ ~builder.made
    /\ \E scval \in SampleScVals, status \in HostStatuses, val \in Payloads,
          typed \in BOOLEAN :
          LET out == scval_to_valid_host_val(scval,
                         [status |-> status, val |-> val, typed |-> typed])
          IN  /\ op' = "scval_to_valid_host_val"
              /\ call' = [NoCall EXCEPT !.val = scval, !.status = status]
              /\ trace' = out.trace
              /\ result' = out.result
    /\ UNCHANGED <<builder, store, puts, procs, cli>>

FromScVal ==
    /\ Running
    /\ ~builder.made
    /\ \E scval \in SampleScVals, status \in HostStatuses, val \in Payloads,
          typed \in BOOLEAN :
          LET out == from_scval(scval, [status |-> status, val |-> val, typed |-> typed])
          IN  /\ op' = "from_scval"
              /\ call' = [NoCall EXCEPT !.val = scval, !.status = status]
              /\ trace' = out.trace
              /\ result' = out.result
    /\ UNCHANGED <<builder, store, puts, procs, cli>>

\* the operation has returned to the guest code that called it, which goes on
Resume ==
    /\ op # "none"
    /\ result.kind # "Panic"
    /\ op' = "none"
    /\ call' = NoCall
    /\ trace' = <<>>
    /\ result' = NoResult
    /\ UNCHANGED <<builder, store, puts, procs, cli>>

\* after an abort the host starts a fresh guest invocation (on_close)
Invoke ==
    /\ result.kind = "Panic"
    /\ op' = "none"
    /\ call' = NoCall
    /\ trace' = <<>>
    /\ result' = NoResult
    /\ builder' = [made |-> FALSE, action |-> "Read", conditions |-> <<>>]
    /\ UNCHANGED <<store, puts, procs, cli>>

Next ==
    \/ ExpressFromStatus
    \/ ReadTable
    \/ WriteTable
    \/ UpdateTable
    \/ ReadToRows
    \/ Put
    \/ Update
    \/ DecodeColumn
    \/ ToScVal
    \/ ScValToValidHostVal
    \/ FromScVal
    \/ Resume
    \/ Invoke

Spec == Init /\ [][Next]_vars

-----------------------------------------------------------------------------
(* The derived operations against the in-memory gateway double: `store` is  *)
(* its rows, `puts` the records of the put calls that the double answered   *)
(* with Success, each with its table.                                       *)

RECURSIVE HostServe(_, _, _, _)
\* the double serving the events of one put: it stacks the words pushed and
\* appends a row at every write_raw
HostServe(rows, stack, tr, mem) ==
    IF tr = <<>> THEN rows
    ELSE IF Head(tr).ev = "push"
    THEN HostServe(rows, Append(stack, Head(tr).arg), Tail(tr), mem)
    ELSE IF Head(tr).ev = "write_raw"
    THEN HostServe(HostWrite(rows, stack, mem), <<>>, Tail(tr), mem)
    ELSE HostServe(rows, <<>>, Tail(tr), mem)

\* put against the double, which writes and answers Success, or answers
\* another status and writes nothing
StorePut ==
    /\ Running
    /\ \E rec \in SampleRecords, status \in HostStatuses :
          /\ status = I64(1) => Len(store) < MaxRows
          /\ LET out == put(rec, [status |-> status, buf |-> <<>>])
                 mem == GuestMemory(<<>>, SerializeFields(rec))
                 decl == rec.decl
             IN  /\ op' = "put"
                 /\ call' = [NoCall EXCEPT !.rtype = decl.name, !.table = decl.table,
                                !.cols = decl.fields, !.rec = rec.vals,
                                !.segs = FieldSegments(SerializeFields(rec)),
                                !.status = status]
                 /\ trace' = out.trace
                 /\ result' = out.result
                 /\ store' = IF status = I64(1)
                             THEN HostServe(store, <<>>, out.trace, mem) ELSE store
                 /\ puts' = IF status = I64(1)
                            THEN Append(puts, [table |-> decl.table, vals |-> rec.vals])
                            ELSE puts
    /\ UNCHANGED <<builder, procs, cli>>

\* read_to_rows against the double, with the conditions column_equal_to
\* built: the double answers the words pushed and the read call with the rows
\* it finds, left at (offset, size)
StoreRead ==
    /\ Running
    /\ \E decl \in RecordDecls, hasConds \in BOOLEAN,
          tcs \in SeqsUpTo(TypedConditions, MaxConds), status \in {I64(1), I64(3)} :
          /\ ~hasConds => tcs = <<>>
          /\ op' = "read_to_rows"
          /\ call' = [NoCall EXCEPT !.rtype = decl.name, !.table = decl.table,
                         !.cols = decl.fields, !.hasConds = hasConds,
                         !.conds = BuildConditions(TableQueryWrapperNew("Read"),
                                                   tcs).conditions,
                         !.val = tcs,
                         !.hasExt = decl.hasExternalAttr, !.ext = decl.externalAttr,
                         !.status = status]
          /\ trace' = read_to_rows(decl, hasConds, call'.conds,
                                   [status |-> status, buf |-> <<>>]).trace
          /\ result' = read_to_rows(decl, hasConds, call'.conds,
                           [status |-> status,
                            buf |-> SerializeTableRows(
                                        HostRead(store, StackWords(trace'),
                                                 GuestMemory(call'.conds, <<>>)))]).result
    /\ UNCHANGED <<builder, store, puts, procs, cli>>

NextStore ==
    \/ StorePut
    \/ StoreRead
    \/ Resume
    \/ Invoke

SpecStore == Init /\ [][NextStore]_vars

-----------------------------------------------------------------------------
(* Hello Ledger: on_close run by several guest invocations against the      *)
(* same double.  `procs` holds, per invocation, where it is in on_close,    *)
(* the sequence of its ledger, the rows it read, the rows of the double at  *)
(* the time of its read, the branch it took and what its write returned.    *)
(* The double serves one host call at a time; the invocations interleave    *)
(* between their calls.                                                     *)

SequenceDecl == DeclOf("Sequence")

\* the ledger sequences of the closes the invocations are started for
LedgerSequences == {1, 2}

find_always_none(rows, current) == [some |-> FALSE, last |-> <<>>]

\* .iter().find(|x| x.current == sequence.current - 1)
find(rows, current) ==
    LET at == {i \in 1..Len(rows) : rows[i][1] = Le32(current - 1)}
    IN  IF at = {} THEN [some |-> FALSE, last |-> <<>>]
        ELSE [some |-> TRUE, last |-> rows[CHOOSE i \in at : \A j \in at : i <= j]]

\* the conditions of the update: the column `current` equal to the
\* serialized ZephyrVal::U32(last.current)
on_close_conditions(last) ==
    column_equal_to(TableQueryWrapperNew("Update"), "current", "u32", last[1]).conditions

\* the if let of on_close: update where a row of the previous sequence was
\* read, put otherwise
on_close_write(current, rows, reply) ==
    LET sequence == Record("Sequence", <<Le32(current)>>)
        found == find(rows, current)
    IN  IF found.some
        THEN [branch |-> "update", conds |-> on_close_conditions(found.last),
              out |-> update(sequence, on_close_conditions(found.last), reply)]
        ELSE [branch |-> "put", conds |-> <<>>, out |-> put(sequence, reply)]

\* the host starts an invocation of on_close for a ledger close
OnClose ==
    /\ Running
    /\ Len(procs) < MaxProcs
    /\ \E current \in LedgerSequences :
          procs' = Append(procs, [pc |-> "read", current |-> current, rows |-> <<>>,
                                  seen |-> <<>>, branch |-> "", result |-> NoResult])
    /\ UNCHANGED <<op, call, trace, result, builder, store, puts, cli>>

\* Sequence::read_to_rows(&env) of invocation p
OnCloseRead ==
    /\ Running
    /\ \E p \in 1..Len(procs), status \in {I64(1), I64(3)} :
          /\ procs[p].pc = "read"
          /\ op' = "read_to_rows"
          /\ call' = [NoCall EXCEPT !.rtype = SequenceDecl.name,
                         !.table = SequenceDecl.table, !.cols = SequenceDecl.fields,
                         !.status = status, !.ext = p]
          /\ trace' = read_to_rows(SequenceDecl, FALSE, <<>>,
                                   [status |-> status, buf |-> <<>>]).trace
          /\ result' = read_to_rows(SequenceDecl, FALSE, <<>>,
                           [status |-> status,
                            buf |-> SerializeTableRows(
                                        HostRead(store, StackWords(trace'),
                                                 GuestMemory(<<>>, <<>>)))]).result
          /\ procs' = [procs EXCEPT ![p] =
                          IF result'.kind = "Ok"
                          THEN [@ EXCEPT !.pc = "write", !.rows = result'.rows,
                                         !.seen = store]
                          ELSE [@ EXCEPT !.pc = "aborted", !.result = result']]
    /\ UNCHANGED <<builder, store, puts, cli>>

\* sequence.update(..) or sequence.put(&env) of invocation p: the double
\* carries out the call and answers Success, or answers DbWriteError
OnCloseWrite ==
    /\ Running
    /\ \E p \in 1..Len(procs), status \in {I64(1), I64(2)} :
          /\ procs[p].pc = "write"
          /\ LET reply == [status |-> status, buf |-> <<>>]
                 did == on_close_write(procs[p].current, procs[p].rows, reply)
                 sequence == Record("Sequence", <<Le32(procs[p].current)>>)
                 mem == GuestMemory(did.conds, SerializeFields(sequence))
             IN  /\ (status = I64(1) /\ did.branch = "put") => Len(store) < MaxRows
                 /\ op' = did.branch
                 /\ call' = [NoCall EXCEPT !.rtype = SequenceDecl.name,
                                !.table = SequenceDecl.table,
                                !.cols = SequenceDecl.fields,
                                !.rec = sequence.vals, !.conds = did.conds,
                                !.status = status, !.ext = p]
                 /\ trace' = did.out.trace
                 /\ result' = did.out.result
                 /\ store' = IF status # I64(1) THEN store
                             ELSE IF did.branch = "put"
                             THEN HostWrite(store, StackWords(trace'), mem)
                             ELSE HostUpdate(store, StackWords(trace'), mem)
                 /\ procs' = [procs EXCEPT ![p] =
                                 [@ EXCEPT !.pc = IF result'.kind = "Ok" THEN "done"
                                                  ELSE "aborted",
                                           !.branch = did.branch,
                                           !.result = result']]
    /\ UNCHANGED <<builder, puts, cli>>

NextRace ==
    \/ OnClose
    \/ OnCloseRead
    \/ OnCloseWrite
    \/ Resume
    \/ Invoke

SpecRace == Init /\ [][NextRace]_vars

-----------------------------------------------------------------------------
(* Lifetime of the buffers whose addresses are pushed.  The trace of a       *)
(* statement also holds where a buffer comes to exist and where it is        *)
(* dropped: the serialized fields are temporaries of the statement that      *)
(* calls db_write or db_update and live to its end, the bytes of a           *)
(* condition are owned by the condition, which the caller holds across the   *)
(* call it lends it to.                                                      *)

Alloc(ptr, bytes) == [ev |-> "alloc", arg |-> ptr, bytes |-> bytes]
Drop(ptr) == [ev |-> "drop", arg |-> ptr]

\* bincode::serialize(..).unwrap() and to_xdr(..).unwrap() of each field: a
\* Vec per field, in field order
Temporaries(rec) ==
    LET bytes == SerializeFields(rec)
    IN  [i \in 1..Len(bytes) |-> Alloc(FieldSegments(bytes)[i].ptr, bytes[i])]

\* the temporaries dropped at the end of the statement, last created first
DropTemporaries(rec) ==
    LET bytes == SerializeFields(rec)
    IN  [i \in 1..Len(bytes) |-> Drop(FieldSegments(bytes)[Len(bytes) + 1 - i].ptr)]

\* the Vec<u8> of each Condition::ColumnEqualTo the builder has pushed
OwnedConditions(conds) ==
    [k \in 1..Len(conds) |-> Alloc(conds[k].val.ptr, conds[k].bytes)]

put_statement_early_drop(rec, reply) ==
    LET out == put(rec, reply)
    IN  Outcome(Temporaries(rec) \o DropTemporaries(rec) \o out.trace, out.result)

\* env.db_write(.., &[#(#serialize_type),*]).unwrap(); as a statement
put_statement(rec, reply) ==
    LET out == put(rec, reply)
    IN  Outcome(Temporaries(rec) \o out.trace
                    \o (IF out.result.kind = "Ok" THEN DropTemporaries(rec) ELSE <<>>),
                out.result)

\* env.db_update(.., &[#(#serialize_type_update),*], conditions).unwrap(); as
\* a statement
update_statement(rec, conditions, reply) ==
    LET out == update(rec, conditions, reply)
    IN  Outcome(Temporaries(rec) \o out.trace
                    \o (IF out.result.kind = "Ok" THEN DropTemporaries(rec) ELSE <<>>),
                out.result)

PutStatement ==
    /\ Running
    /\ ~builder.made
    /\ \E rec \in SampleRecords, reply \in StatusReplies :
          /\ op' = "put_statement"
          /\ call' = [NoCall EXCEPT !.rtype = rec.decl.name, !.rec = rec.vals,
                         !.status = reply.status]
          /\ trace' = put_statement(rec, reply).trace
          /\ result' = put_statement(rec, reply).result
    /\ UNCHANGED <<builder, store, puts, procs, cli>>

\* builder.execute(&rec): the conditions are lent to update for the call
UpdateStatement ==
    /\ Running
    /\ ~builder.made
    /\ \E rec \in SampleRecords, tcs \in SeqsUpTo(TypedConditions, MaxConds),
          reply \in StatusReplies :
          /\ op' = "update_statement"
          /\ call' = [NoCall EXCEPT !.rtype = rec.decl.name, !.rec = rec.vals,
                         !.conds = BuildConditions(TableQueryWrapperNew("Update"),
                                                   tcs).conditions,
                         !.status = reply.status]
          /\ trace' = OwnedConditions(call'.conds)
                          \o update_statement(rec, call'.conds, reply).trace
          /\ result' = update_statement(rec, call'.conds, reply).result
    /\ UNCHANGED <<builder, store, puts, procs, cli>>

\* builder.read::<T>(): the conditions are lent to read_to_rows for the call
ReadStatement ==
    /\ Running
    /\ ~builder.made
    /\ \E decl \in RecordDecls, tcs \in SeqsUpTo(TypedConditions, MaxConds),
          status \in HostStatuses :
          /\ op' = "read_statement"
          /\ call' = [NoCall EXCEPT !.rtype = decl.name, !.hasConds = TRUE,
                         !.conds = BuildConditions(TableQueryWrapperNew("Read"),
                                                   tcs).conditions,
                         !.status = status]
          /\ trace' = OwnedConditions(call'.conds)
                          \o read_to_rows(decl, TRUE, call'.conds,
                                 [status |-> status,
                                  buf |-> SerializeTableRows(<<>>)]).trace
          /\ result' = read_to_rows(decl, TRUE, call'.conds,
                           [status |-> status, buf |-> SerializeTableRows(<<>>)]).result
    /\ UNCHANGED <<builder, store, puts, procs, cli>>

NextMemory ==
    \/ PutStatement
    \/ UpdateStatement
    \/ ReadStatement
    \/ Resume
    \/ Invoke

SpecMemory == Init /\ [][NextMemory]_vars

-----------------------------------------------------------------------------
(* mercury-cli deploy, the path without --old-api.  The backend answers a    *)
(* request with a success status, with another status, or cannot be reached. *)

HttpOutcomes == {"success", "failure", "unreachable"}

\* the tables of a zephyr.toml: a name and the optional force of the table
TableSpecs == {[name |-> "opratio", force |-> "None"],
               [name |-> "opratio", force |-> "true"],
               [name |-> "ledgers", force |-> "false"]}

Configs ==
    {[tables |-> t, indexes |-> i, dashboard |-> d] :
        t \in SeqsUpTo(TableSpecs, MaxTables), i \in 0..1, d \in BOOLEAN}

Request(path, force, response) == [path |-> path, force |-> force, response |-> response]

\* MercuryClient::new_table: the request is sent and unwrapped; the status
\* of the response is printed, and Ok(()) is returned either way
new_table(table, force, response) ==
    [kind |-> IF response = "unreachable" THEN "Panic" ELSE "Ok",
     request |-> Request("zephyr_table_new", force \/ table.force = "true", response)]

RECURSIVE deploy_tables(_, _, _)
\* deploy_tables: new_table for each table in turn, TableCreationError at
\* the first Err
deploy_tables(tables, force, responses) ==
    IF tables = <<>> THEN [kind |-> "Ok", error |-> "none", requests |-> <<>>]
    ELSE LET sent == new_table(Head(tables), force, Head(responses))
         IN  IF sent.kind = "Panic"
             THEN [kind |-> "Panic", error |-> "none", requests |-> <<sent.request>>]
             ELSE IF sent.kind = "Err"
             THEN [kind |-> "Err", error |-> "TableCreationError",
                   requests |-> <<sent.request>>]
             ELSE LET rest == deploy_tables(Tail(tables), force, Tail(responses))
                  IN  [rest EXCEPT !.requests = <<sent.request>> \o @]

\* register_indexes and register_dashboard: send().await? gives the error
\* of a request that could not be sent; the status of the response is not
\* looked at
register(path, count, response) ==
    IF count = 0 THEN [kind |-> "Ok", error |-> "none", requests |-> <<>>]
    ELSE [kind |-> IF response = "unreachable" THEN "Err" ELSE "Ok",
          error |-> IF response = "unreachable" THEN "reqwest" ELSE "none",
          requests |-> <<Request(path, FALSE, response)>>]

\* deploy_wasm: MercuryClient::deploy reads the wasm, which fails when the
\* file is not there, sends it and unwraps; the status is printed
deploy_wasm(found, response) ==
    IF ~found THEN [kind |-> "Err", error |-> "WasmDeploymentError", requests |-> <<>>]
    ELSE [kind |-> IF response = "unreachable" THEN "Panic" ELSE "Ok",
          error |-> "none",
          requests |-> <<Request("zephyr_upload", FALSE, response)>>]

\* a step of main: its result is unwrapped, so anything but Ok ends the
\* command there
Step(name, out, next) ==
    [cli EXCEPT !.steps = Append(@, name),
                !.requests = @ \o out.requests,
                !.error = IF out.kind = "Ok" THEN "none"
                          ELSE IF out.kind = "Panic" THEN "panic" ELSE out.error,
                !.pc = IF out.kind = "Ok" THEN next ELSE "failed"]

GuestUnchanged == UNCHANGED <<op, call, trace, result, builder, store, puts, procs>>

\* Commands::Deploy { target, old_api: not set, force }
DeployCommand ==
    /\ cli.pc = "idle"
    /\ \E force \in BOOLEAN : cli' = [cli EXCEPT !.pc = "parse", !.force = force]
    /\ GuestUnchanged

\* ZephyrProjectParser::from_path(client, "./zephyr.toml").unwrap()
FromPath ==
    /\ cli.pc = "parse"
    /\ \/ \E config \in Configs :
             cli' = [cli EXCEPT !.steps = Append(@, "parse"), !.config = config,
                                !.pc = "build"]
       \/ cli' = [cli EXCEPT !.steps = Append(@, "parse"), !.error = "toml",
                             !.pc = "failed"]
    /\ GuestUnchanged

\* parser.build_wasm().unwrap()
BuildWasm ==
    /\ cli.pc = "build"
    /\ \E built \in BOOLEAN :
          cli' = Step("build",
                      [kind |-> IF built THEN "Ok" ELSE "Err",
                       error |-> IF built THEN "none" ELSE "WasmBuildError",
                       requests |-> <<>>],
                      "tables")
    /\ GuestUnchanged

\* parser.deploy_tables(force.unwrap_or(false)).await.unwrap()
DeployTables ==
    /\ cli.pc = "tables"
    /\ \E responses \in [1..Len(cli.config.tables) -> HttpOutcomes] :
          cli' = Step("tables", deploy_tables(cli.config.tables, cli.force, responses),
                      "indexes")
    /\ GuestUnchanged

\* parser.register_indexes().await.unwrap()
RegisterIndexes ==
    /\ cli.pc = "indexes"
    /\ \E response \in HttpOutcomes :
          cli' = Step("indexes", register("api/indexes", cli.config.indexes, response),
                      "dashboard")
    /\ GuestUnchanged

\* parser.register_dashboard().await.unwrap()
RegisterDashboard ==
    /\ cli.pc = "dashboard"
    /\ \E response \in HttpOutcomes :
          cli' = Step("dashboard",
                      register("api/dashboard", IF cli.config.dashboard THEN 1 ELSE 0,
                               response),
                      "wasm")
    /\ GuestUnchanged

\* parser.deploy_wasm(target).await.unwrap()
DeployWasm ==
    /\ cli.pc = "wasm"
    /\ \E found \in BOOLEAN, response \in HttpOutcomes :
          cli' = Step("wasm", deploy_wasm(found, response), "done")
    /\ GuestUnchanged

NextDeploy ==
    \/ DeployCommand
    \/ FromPath
    \/ BuildWasm
    \/ DeployTables
    \/ RegisterIndexes
    \/ RegisterDashboard
    \/ DeployWasm

SpecDeploy == Init /\ [][NextDeploy]_vars

-----------------------------------------------------------------------------
(* The ledger meta reader on the ledger close of the invocation *)

Envelopes ==
    /\ Running
    /\ \E ledger \in Ledgers :
          /\ op' = "envelopes"
          /\ call' = [NoCall EXCEPT !.val = ledger]
          /\ trace' = <<>>
          /\ result' = Ok(envelopes(ledger))
    /\ UNCHANGED <<builder, store, puts, procs, cli>>

EnvelopesWithMeta ==
    /\ Running
    /\ \E ledger \in Ledgers, status \in HostStatuses, buf \in NetworkBuffers :
          /\ op' = "envelopes_with_meta"
          /\ call' = [NoCall EXCEPT !.val = ledger, !.status = status, !.buf = buf]
          /\ trace' = <<>>
          /\ result' = envelopes_with_meta(ledger, [status |-> status, buf |-> buf])
    /\ UNCHANGED <<builder, store, puts, procs, cli>>

TxProcessing ==
    /\ Running
    /\ \E ledger \in Ledgers :
          /\ op' = "tx_processing"
          /\ call' = [NoCall EXCEPT !.val = ledger]
          /\ trace' = <<>>
          /\ result' = Ok(tx_processing(ledger))
    /\ UNCHANGED <<builder, store, puts, procs, cli>>

V1SuccessLedgerEntries ==
    /\ Running
    /\ \E ledger \in Ledgers :
          /\ op' = "v1_success_ledger_entries"
          /\ call' = [NoCall EXCEPT !.val = ledger]
          /\ trace' = <<>>
          /\ result' = Ok(v1_success_ledger_entries(ledger))
    /\ UNCHANGED <<builder, store, puts, procs, cli>>

V1LedgerEntries ==
    /\ Running
    /\ \E ledger \in Ledgers :
          /\ op' = "v1_ledger_entries"
          /\ call' = [NoCall EXCEPT !.val = ledger]
          /\ trace' = <<>>
          /\ result' = Ok(v1_ledger_entries(ledger))
    /\ UNCHANGED <<builder, store, puts, procs, cli>>

SorobanEvents ==
    /\ Running
    /\ \E ledger \in Ledgers :
          /\ op' = "soroban_events"
          /\ call' = [NoCall EXCEPT !.val = ledger]
          /\ trace' = <<>>
          /\ result' = Ok(soroban_events(ledger))
    /\ UNCHANGED <<builder, store, puts, procs, cli>>

NextLedger ==
    \/ Envelopes
    \/ EnvelopesWithMeta
    \/ TxProcessing
    \/ V1SuccessLedgerEntries
    \/ V1LedgerEntries
    \/ SorobanEvents
    \/ Resume
    \/ Invoke

SpecLedger == Init /\ [][NextLedger]_vars

ColumnEqualTo ==
    /\ Running
    /\ builder.made
    /\ Len(builder.conditions) < MaxConds
    /\ \E tc \in TypedConditions :
          builder' = column_equal_to(builder, tc.col, tc.ty, tc.arg)
    /\ UNCHANGED <<op, call, trace, result, store, puts, procs, cli>>

ColumnEqualToXdr ==
    /\ Running
    /\ builder.made
    /\ Len(builder.conditions) < MaxConds
    /\ \E xdr \in {<<0, 1>>, <<15, 97, 98, 99>>} :
          builder' = column_equal_to_xdr(builder, "data", xdr)
    /\ UNCHANGED <<op, call, trace, result, store, puts, procs, cli>>

\* read() of a table in which the host finds no row, or fails
BuilderReadNoRows ==
    /\ Running
    /\ builder.made
    /\ \E decl \in RecordDecls, status \in HostStatuses :
          LET out == read(builder, decl,
                          [status |-> status, buf |-> SerializeTableRows(<<>>)])
          IN  /\ op' = "read"
              /\ call' = [NoCall EXCEPT !.rtype = decl.name, !.table = decl.table,
                             !.cols = decl.fields, !.hasConds = TRUE,
                             !.conds = builder.conditions,
                             !.hasExt = decl.hasExternalAttr, !.ext = decl.externalAttr,
                             !.status = status, !.buf = SerializeTableRows(<<>>)]
              /\ trace' = out.trace
              /\ result' = out.result
    /\ UNCHANGED <<builder, store, puts, procs, cli>>

\* a builder through any chain of its calls
NextChain ==
    \/ NewBuilder
    \/ ColumnEqualTo
    \/ ColumnEqualToBytes
    \/ ColumnEqualToXdr
    \/ Execute
    \/ BuilderReadNoRows
    \/ Resume
    \/ Invoke

SpecChain == Init /\ [][NextChain]_vars

NextBuilder ==
    \/ NewBuilder
    \/ ColumnEqualToBytes
    \/ Execute
    \/ BuilderRead
    \/ Resume
    \/ Invoke

SpecBuilder == Init /\ [][NextBuilder]_vars

-----------------------------------------------------------------------------
(* Properties *)

DefinedStatus(st) == \E n \in 0..5 : st = I64(n)

\* what the status protocol prescribes for the defined codes 0..5
PrescribedResult ==
    <<Err("Unknown"), Ok(<<>>), Err("DbWrite"), Err("DbRead"),
      Err("NoValOnStack"), Err("HostConfiguration")>>

\* C1: express_from_status maps code 1 to Ok(()) and every other defined code
\* to its own named error: 2 to DbWrite, 3 to DbRead, 4 to NoValOnStack, 5 to
\* HostConfiguration and 0 to Unknown, which is an error and never Ok.
C1_DefinedCodesMapped ==
    op = "express_from_status" =>
        \A n \in 0..5 : call.status = I64(n) => result = PrescribedResult[n + 1]

C1_Witness ==
    /\ op = "express_from_status"
    /\ call.status = I64(2)
    /\ result = Err("DbWrite")

\* C2: every 64-bit status outside 0..5, negative values and values of 2^32 or
\* more included, makes express_from_status panic; it returns neither Ok(())
\* nor a named error.
C2_UndefinedCodesFatal ==
    (op = "express_from_status" /\ ~DefinedStatus(call.status)) =>
        result.kind = "Panic"

C4_ErrorNamesTheMisuse ==
    /\ (op = "execute" /\ builder.action = "Read") =>
           result = Err("UpdateOnReadAction")
    /\ (op = "read" /\ builder.action = "Update") =>
           result = Err("ReadOnUpdateAction")

\* the operation's names all encode, so that it gets to its host call
NamesEncode ==
    /\ call.table \in ValidNames
    /\ \A i \in 1..Len(call.cols) : call.cols[i] \in ValidNames
    /\ \A i \in 1..Len(call.conds) : call.conds[i].col \in ValidNames

\* the words of the head, written out position by position
HeadWords ==
    <<TokenOf[call.table], Len(call.cols)>>
    \o [i \in 1..Len(call.cols) |-> TokenOf[call.cols[i]]]

\* count, then pointer and length of every slice in turn
SliceWords(slices) ==
    <<Len(slices)>>
    \o [i \in 1..(2 * Len(slices)) |->
          IF i % 2 = 1 THEN slices[(i + 1) \div 2].ptr ELSE slices[i \div 2].len]

\* count, then column token and operator code 0 of every condition in turn,
\* then the operands as a counted list of slices
ConditionWords ==
    <<Len(call.conds)>>
    \o [i \in 1..(2 * Len(call.conds)) |->
          IF i % 2 = 1 THEN TokenOf[call.conds[(i + 1) \div 2].col] ELSE 0]
    \o SliceWords([i \in 1..Len(call.conds) |-> call.conds[i].val])

AsPushes(words) == [i \in 1..Len(words) |-> Push(words[i])]

Pushes == SelectSeq(trace, LAMBDA e : e.ev = "push")
HostCalls == SelectSeq(trace, LAMBDA e : e.ev \in HostCallNames)

\* C5: write_table pushes the table token, the column count, one token per
\* column in column order, the segment count and then pointer and length of
\* each segment in order, with nothing in between, and calls write_raw only
\* after the last push.
C5_WriteTableOrder ==
    (op = "write_table" /\ NamesEncode) =>
        trace = AsPushes(HeadWords \o SliceWords(call.segs))
                \o <<HostCall("write_raw", 0)>>

C5_Witness ==
    /\ op = "write_table"
    /\ Len(call.cols) = 2 /\ call.cols[1] # call.cols[2]
    /\ Len(call.segs) = 2 /\ call.segs[1] # call.segs[2]
    /\ trace[Len(trace)] = HostCall("write_raw", 0)

\* C6: on the conditional paths (update_table, and read_table given
\* conditions) the condition block follows the head (and the data segments of
\* an update): the condition count, per condition its column token and
\* operator code 0, a second count equal to the first, then per condition, in
\* the same order, operand pointer and operand length.
C6_ConditionBlockOrder ==
    /\ (op = "update_table" /\ NamesEncode) =>
           Pushes = AsPushes(HeadWords \o SliceWords(call.segs) \o ConditionWords)
    /\ (op = "read_table" /\ call.hasConds /\ NamesEncode) =>
           Pushes = AsPushes(HeadWords \o ConditionWords)

C6_Witness ==
    /\ op = "update_table"
    /\ Len(call.conds) = 2 /\ call.conds[1] # call.conds[2]
    /\ Len(call.segs) = 1
    /\ Len(call.cols) = 1
    /\ trace[Len(trace)] = HostCall("update_raw", 0)

GatewayOps == {"read_table", "write_table", "update_table"}

ConditionEncodingLen == 2 + 4 * Len(call.conds)

\* C7: the number of words a gateway call pushes before its host call is
\* exactly 2 + 2 * len(columns), plus the length of the condition encoding
\* when conditions are present.
C7_PushCountAsStated ==
    (op \in GatewayOps /\ NamesEncode) =>
        Len(Pushes) = 2 + 2 * Len(call.cols)
                      + (IF call.hasConds THEN ConditionEncodingLen ELSE 0)

\* C7, amended: the number of words pushed is 2 + len(columns) for the head,
\* plus 1 + 2 * len(segments) on the write and update paths, plus
\* 2 + 4 * len(conditions) when conditions are present; it depends on the
\* sizes of the inputs alone.
C7_PushCount ==
    (op \in GatewayOps /\ NamesEncode) =>
        Len(Pushes) = 2 + Len(call.cols)
                      + (IF op = "read_table" THEN 0 ELSE 1 + 2 * Len(call.segs))
                      + (IF call.hasConds THEN ConditionEncodingLen ELSE 0)

C7_Witness ==
    /\ op = "update_table"
    /\ Len(call.cols) = 2
    /\ Len(call.segs) = 1
    /\ Len(call.conds) = 2
    /\ Len(Pushes) = 17
    /\ Len(HostCalls) = 1


\* C8: read_table calls read_as_id, with the given identifier, exactly when
\* external_id is Some, and read_raw exactly when it is None; a record type
\* derived without an external annotation always reads through read_raw.
C8_ReadCallChosenByExternalId ==
    /\ (op = "read_table" /\ NamesEncode) =>
           HostCalls = <<IF call.hasExt THEN HostCall("read_as_id", call.ext)
                         ELSE HostCall("read_raw", 0)>>
    /\ (op = "read_to_rows" /\ NamesEncode /\ ~DeclOf(call.rtype).hasExternalAttr) =>
           HostCalls = <<HostCall("read_raw", 0)>>

C8_Witness ==
    /\ op = "read_table"
    /\ call.hasExt /\ call.ext = 7
    /\ HostCalls = <<HostCall("read_as_id", 7)>>

\* C9: a read_table, write_table or update_table that reaches the host makes
\* all of its pushes first and then exactly one host call; whatever status
\* comes back, the call is not repeated and no push follows it.
C9_OneHostCallLast ==
    (op \in GatewayOps /\ NamesEncode) =>
        /\ Len(HostCalls) = 1
        /\ trace[Len(trace)].ev \in HostCallNames
        /\ \A i \in 1..(Len(trace) - 1) : trace[i].ev = "push"

C9_Witness ==
    /\ op = "write_table"
    /\ call.status = I64(2)
    /\ result = Err("DbWrite")
    /\ Len(trace) > 1
    /\ HostCalls = <<HostCall("write_raw", 0)>>

\* buffers that hold no complete TableRows: a serialized table cut short,
\* no bytes at all, a row count with nothing behind it
CutBuffers ==
    {DropLast(SerializeTableRows(r)) : r \in SampleRows}
    \cup {<<>>, <<1, 0, 0, 0, 0, 0, 0, 1>>}

\* C10: when the host answers a read with status Success and the returned
\* bytes do not deserialize as TableRows, read_table returns Err(Conversion)
\* and does not abort.
C10_BadBufferIsConversion ==
    (op = "read_table" /\ NamesEncode /\ call.status = I64(1)
       /\ call.buf \in CutBuffers) =>
        result = Err("Conversion")

C10_Witness ==
    /\ op = "read_table"
    /\ call.status = I64(1)
    /\ call.buf = DropLast(SerializeTableRows(<< <<<<7>>>> >>))
    /\ Len(HostCalls) = 1
    /\ result = Err("Conversion")
-----------------------------------------------------------------------------
(* Derived read_to_rows: records against rows *)

\* the codec the derive picks for a declared type, applied to one column
ColumnCodec(ty, col) ==
    IF IsZephyrValType(ty)
    THEN LET zv == DeserializeZephyrValChecked(col)
         IN  IF zv.ok THEN ZephyrValInto(ty, zv) ELSE [ok |-> FALSE, val |-> <<>>]
    ELSE IF IsXdrType(ty) THEN FromXdr(ty, col)
    ELSE BincodeDeserialize(ty, col)

\* C20: read_to_rows returns one record per row the gateway returned, in the
\* rows' order, and field i of each record is column i of its row decoded
\* with the codec of field i's declared type; the two events of the
\* test-conditions program come back as (1, 10) then (2, 20).
C20_RecordPerRowFieldPerColumn ==
    (op = "read_to_rows" /\ result.kind = "Ok") =>
        LET table == DeserializeTableRows(call.buf).val
            types == DeclOf(call.rtype).types
        IN  /\ Len(result.rows) = Len(table)
            /\ \A r \in 1..Len(table) :
                  /\ Len(result.rows[r]) = Len(types)
                  /\ \A i \in 1..Len(types) :
                        /\ i <= Len(table[r])
                        /\ ColumnCodec(types[i], table[r][i]).ok
                        /\ result.rows[r][i] = ColumnCodec(types[i], table[r][i]).val
            /\ (/\ call.rtype = "StoredEvent"
                /\ call.buf = SerializeTableRows(<< <<I32Col(1), I32Col(10)>>,
                                                    <<I32Col(2), I32Col(20)>> >>))
               => result.rows = << <<Le32(1), Le32(10)>>, <<Le32(2), Le32(20)>> >>

C20_Witness ==
    /\ op = "read_to_rows"
    /\ result.kind = "Ok"
    /\ call.rtype = "TypedEvent"
    /\ Len(result.rows) = 2
    /\ result.rows[1] = TypedRecords[2].vals
    /\ result.rows[2] = TypedRecords[1].vals

-----------------------------------------------------------------------------
(* Conversion of a decoded ZephyrVal into the field's native type *)

\* a little-endian integer in seventeen bytes of two's complement, which
\* hold every value of every integer variant
Canon(signed, bytes) ==
    bytes \o [i \in 1..(17 - Len(bytes)) |->
                 IF signed /\ bytes[Len(bytes)] >= 128 THEN 255 ELSE 0]

\* numeric widening: an integer variant into an integer type that holds
\* every value of the variant
Widening(tag, ty) ==
    /\ tag \in IntegerTags
    /\ ty \in IntegerTypes
    /\ tag # TagOf(ty)
    /\ IF tag \in SignedTags
       THEN TagOf(ty) \in SignedTags /\ WidthOf(ty) >= FixedWidth[tag + 1]
       ELSE \/ TagOf(ty) \notin SignedTags /\ WidthOf(ty) >= FixedWidth[tag + 1]
            \/ TagOf(ty) \in SignedTags /\ WidthOf(ty) > FixedWidth[tag + 1]

\* C16: a decoded ZephyrVal converts into a field's type when its variant is
\* the type's own, or by numeric widening, which keeps the number; a value of
\* any other variant aborts.
C16_MismatchAbortsWideningKeepsValue ==
    (op = "decode_column" /\ DeserializeZephyrValChecked(call.val).ok) =>
        LET zv == DeserializeZephyrValChecked(call.val)
        IN  IF zv.tag = TagOf(call.ty)
            THEN result = Ok(<<zv.payload>>)
            ELSE IF Widening(zv.tag, call.ty)
            THEN /\ result.kind = "Ok"
                 /\ Canon(TagOf(call.ty) \in SignedTags, result.rows[1])
                    = Canon(zv.tag \in SignedTags, zv.payload)
            ELSE result.kind = "Panic"

-----------------------------------------------------------------------------
(* The derived operations against the gateway double *)

\* the values of the records put into a table, in the order of the puts
PutInto(table) ==
    LET mine == SelectSeq(puts, LAMBDA p : p.table = table)
    IN  [k \in 1..Len(mine) |-> mine[k].vals]

\* C11: put followed by read_to_rows against a store that returns what was
\* written gives back records equal field for field to the ones put, for
\* fields of every category (numeric, text, bytes, ledger-object values,
\* plain bincode).
C11_PutThenReadRoundTrip ==
    (op = "read_to_rows" /\ ~call.hasConds /\ call.status = I64(1)) =>
        result = Ok(PutInto(call.table))

C11_Witness ==
    /\ op = "read_to_rows"
    /\ ~call.hasConds
    /\ call.rtype = "TypedEvent"
    /\ result = Ok(<<TypedRecords[2].vals, TypedRecords[4].vals>>)

\* C12: after put({idx: 1, value: 10}) and put({idx: 2, value: 20}) into
\* "events", read_to_rows with the one condition ColumnEqualTo("value",
\* encode(20)) returns exactly the record {idx: 2, value: 20}.
C12_ReadsTheRowEqualTo20 ==
    (/\ op = "read_to_rows"
     /\ call.rtype = "StoredEvent"
     /\ call.status = I64(1)
     /\ puts = <<[table |-> "events", vals |-> <<Le32(1), Le32(10)>>],
                 [table |-> "events", vals |-> <<Le32(2), Le32(20)>>]>>
     /\ call.hasConds
     /\ call.val = <<[col |-> "value", ty |-> "i32", arg |-> Le32(20)]>>)
    => result = Ok(<< <<Le32(2), Le32(20)>> >>)

C12_Witness ==
    /\ op = "read_to_rows"
    /\ call.rtype = "StoredEvent"
    /\ puts = <<[table |-> "events", vals |-> <<Le32(1), Le32(10)>>],
                [table |-> "events", vals |-> <<Le32(2), Le32(20)>>]>>
    /\ call.hasConds
    /\ call.val = <<[col |-> "value", ty |-> "i32", arg |-> Le32(20)]>>
    /\ result = Ok(<< <<Le32(2), Le32(20)>> >>)

\* C13: from an empty table, after n puts answered with Success the table
\* holds exactly n rows: a put makes exactly one write, and nothing else adds
\* a row.
C13_OneRowPerPut ==
    /\ Len(store) = Len(puts)
    /\ (op = "put" /\ call.status = I64(1)) =>
          /\ result.kind = "Ok"
          /\ CallsOf(trace, "write_raw") = 1
          /\ store[Len(store)].row = SerializeFields(Record(call.rtype, call.rec))

C13_Witness ==
    /\ op = "put"
    /\ call.status = I64(1)
    /\ Len(puts) = 2
    /\ Len(store) = 2

-----------------------------------------------------------------------------
(* Failure statuses at the gateway and at the host value bridge *)

\* the defined statuses other than Success, and the error of each
FailureStatuses == {I64(0), I64(2), I64(3), I64(4), I64(5)}

ErrorOf(status) ==
    CASE status = I64(0) -> "Unknown"
      [] status = I64(2) -> "DbWrite"
      [] status = I64(3) -> "DbRead"
      [] status = I64(4) -> "NoValOnStack"
      [] OTHER -> "HostConfiguration"

MadeHostCall == \E i \in 1..Len(trace) : trace[i].ev # "push"

\* C17: every non-success defined status (0, 2, 3, 4, 5) a host call
\* answers at the gateway (read_table, write_table, update_table) or at the
\* bridge (to_scval, scval_to_valid_host_val) comes back to the caller as an
\* Err, and does not abort the invocation.
C17_FailureStatusIsErr ==
    (/\ op \in {"read_table", "write_table", "update_table", "to_scval",
                "scval_to_valid_host_val"}
     /\ MadeHostCall
     /\ call.status \in FailureStatuses)
    => result.kind = "Err"

\* C18 as stated: a failure status answered to scval_to_valid_host_val is
\* reported as the Conversion error.
C18_FailureIsConversion ==
    (op = "scval_to_valid_host_val" /\ call.status \in FailureStatuses)
    => result = Err("Conversion")

\* C18: a failure status (0, 2, 3, 4, 5) answered to
\* scval_to_valid_host_val is reported as the error of that status
\* (Unknown, DbWrite, DbRead, NoValOnStack, HostConfiguration), after the one
\* host call.
C18_FailureIsErrorOfStatus ==
    (op = "scval_to_valid_host_val" /\ call.status \in FailureStatuses)
    => /\ result = Err(ErrorOf(call.status))
       /\ Len(trace) = 1
       /\ trace[1].ev = "scval_to_valid_host_val"

C18_Witness ==
    /\ op = "scval_to_valid_host_val"
    /\ call.status = I64(2)
    /\ result = Err("DbWrite")

-----------------------------------------------------------------------------
(* Ledger meta reader *)

\* a ledger close whose transactions the reader can hash, with one result
\* meta per transaction, read while the host serves the network id
WellFormedClose(ledger, reply) ==
    /\ newtork_id(reply).ok
    /\ \A i \in 1..Len(envelopes(ledger)) :
          envelopes(ledger)[i].kind \in {"Tx", "TxFeeBump"}
    /\ Len(ledger.processing) = Len(envelopes(ledger))

\* C14: envelopes_with_meta on a ledger close of K transactions returns K
\* pairs, whose envelopes are those of envelopes(), in that order.
C14_PairPerTransactionInOrder ==
    (/\ op = "envelopes_with_meta"
     /\ WellFormedClose(call.val, [status |-> call.status, buf |-> call.buf]))
    => /\ result.kind = "Ok"
       /\ Len(result.rows) = Len(envelopes(call.val))
       /\ \A i \in 1..Len(result.rows) : result.rows[i].env = envelopes(call.val)[i]

\* what holds of the newer format only
C14_NewerFormatPairPerTransaction ==
    (op = "envelopes_with_meta" /\ call.val.version = 1) => C14_PairPerTransactionInOrder

C14_OlderFormatReached ==
    /\ op = "envelopes_with_meta"
    /\ call.val.version = 0
    /\ Len(call.val.txs) = 2
    /\ WellFormedClose(call.val, [status |-> call.status, buf |-> call.buf])
    /\ result = Ok(<<>>)

NoEntryChanges == [state |-> <<>>, removed |-> <<>>, updated |-> <<>>, created |-> <<>>]

\* C15 as stated: on a ledger close of the older format soroban_events,
\* v1_ledger_entries and v1_success_ledger_entries return nothing, whatever
\* the close contains.
C15_OlderFormatAllEmpty ==
    /\ (op \in {"v1_ledger_entries", "v1_success_ledger_entries"} /\ call.val.version = 0)
       => result = Ok(NoEntryChanges)
    /\ (op = "soroban_events" /\ call.val.version = 0) => result = Ok(<<>>)

\* the events of the metas that are V3 and carry Soroban meta, in the order
\* of tx_processing
RECURSIVE EventsOf(_)
EventsOf(metas) ==
    IF metas = <<>> THEN <<>>
    ELSE (IF Head(metas).v3 /\ Head(metas).soroban THEN Head(metas).events ELSE <<>>)
         \o EventsOf(Tail(metas))

\* C15: on a ledger close of the older format v1_ledger_entries and
\* v1_success_ledger_entries return no entry changes whatever the close
\* contains, and none of the three fails; soroban_events does not look at
\* the format: it returns the events of the V3 metas of tx_processing, so it
\* is empty exactly when no such meta carries an event.
C15_OlderFormatEntriesEmpty ==
    /\ (op \in {"v1_ledger_entries", "v1_success_ledger_entries"} /\ call.val.version = 0)
       => result = Ok(NoEntryChanges)
    /\ (op = "soroban_events" /\ call.val.version = 0)
       => result = Ok(EventsOf(call.val.processing))

C15_Witness ==
    /\ op = "v1_ledger_entries"
    /\ call.val.version = 0
    /\ \E i \in 1..Len(call.val.processing) :
          call.val.processing[i].v3 /\ call.val.processing[i].operations # <<>>
    /\ result = Ok(NoEntryChanges)

-----------------------------------------------------------------------------
(* Hello Ledger under concurrent invocations *)

\* invocation p makes its write in this step, and the double answers Success
WritesNow(p) ==
    /\ p \in 1..Len(procs)
    /\ procs[p].pc = "write"
    /\ procs'[p].pc # "write"
    /\ call'.status = I64(1)

\* C19: read_to_rows followed by update or put is not atomic.  The branch
\* of an invocation is decided by the rows it read, whatever the table holds
\* by the time it writes, and its write is accepted: a put adds a row even
\* when another invocation has put the same sequence since the read.
C19_WriteFollowsOwnReadAndIsAccepted ==
    [][\A p \in 1..MaxProcs :
          WritesNow(p) =>
              /\ procs'[p].pc = "done"
              /\ procs'[p].result.kind = "Ok"
              /\ procs'[p].branch =
                     IF \E i \in 1..Len(procs[p].rows) :
                            procs[p].rows[i][1] = Le32(procs[p].current - 1)
                     THEN "update" ELSE "put"
              /\ procs'[p].branch = "put" =>
                     /\ Len(store') = Len(store) + 1
                     /\ SubSeq(store', 1, Len(store)) = store
                     /\ store'[Len(store')].row = <<SerializeZephyrVal(TagOf("u32"),
                                                       Le32(procs[p].current))>>]_vars

\* two invocations for the same sequence, both reads before either write:
\* both have put, neither was rejected, and the table holds the row twice
C19_Witness ==
    /\ Len(procs) = 2
    /\ \A p \in 1..2 :
          /\ procs[p].pc = "done"
          /\ procs[p].seen = <<>>
          /\ procs[p].branch = "put"
          /\ procs[p].result.kind = "Ok"
    /\ procs[1].current = procs[2].current
    /\ Len(store) = 2
    /\ store[1] = store[2]

-----------------------------------------------------------------------------
(* Rows and the fields of the record type *)

\* C21: every row that read_to_rows turns into a record has exactly as many
\* columns as the record type has fields; a row with fewer or more columns
\* is never accepted as a record.
C21_RowLengthIsFieldCount ==
    (op = "read_to_rows" /\ result.kind = "Ok") =>
        LET table == DeserializeTableRows(call.buf).val
        IN  \A r \in 1..Len(table) : Len(table[r]) = Len(DeclOf(call.rtype).types)

\* what the generated code does ensure: no row is shorter than the record
C21_NoRowShorterThanRecord ==
    (op = "read_to_rows" /\ result.kind = "Ok") =>
        LET table == DeserializeTableRows(call.buf).val
        IN  \A r \in 1..Len(table) : Len(table[r]) >= Len(DeclOf(call.rtype).types)

-----------------------------------------------------------------------------
(* Pairing of envelopes and results *)

\* the reply the host gave to the network id request of the call
NetworkReply == [status |-> call.status, buf |-> call.buf]

\* the positions of the results whose transaction hash is that of envelope e
Matching(ledger, e) ==
    {j \in 1..Len(ledger.processing) :
        ledger.processing[j].hash = txhash_by_transaction(e, NetworkReply).hash}

\* C22: envelopes_with_meta pairs each envelope with the result of its
\* transaction hash when the result stream holds one, and otherwise with the
\* result at the envelope's position in the flattened transaction order.
C22_HashPairingElseFlattenedPosition ==
    (op = "envelopes_with_meta" /\ call.val.version = 1 /\ result.kind = "Ok") =>
        \A i \in 1..Len(result.rows) :
            LET e == envelopes(call.val)[i]
            IN  IF Matching(call.val, e) # {}
                THEN \E j \in Matching(call.val, e) :
                         result.rows[i].meta = call.val.processing[j]
                ELSE /\ i <= Len(call.val.processing)
                     /\ result.rows[i].meta = call.val.processing[i]

\* what the code pairs an unmatched envelope with: the result at the
\* envelope's position inside its own component
C22_HashPairingElseComponentPosition ==
    (op = "envelopes_with_meta" /\ call.val.version = 1 /\ result.kind = "Ok") =>
        \A i \in 1..Len(result.rows) :
            LET e == EnumeratedEnvelopes(call.val)[i]
            IN  IF Matching(call.val, e.env) # {}
                THEN \E j \in Matching(call.val, e.env) :
                         result.rows[i].meta = call.val.processing[j]
                ELSE /\ e.idx + 1 <= Len(call.val.processing)
                     /\ result.rows[i].meta = call.val.processing[e.idx + 1]

-----------------------------------------------------------------------------
(* Entry changes *)

RECURSIVE OfKind(_, _)
\* the entries of the changes of one kind, in order
OfKind(changes, kind) ==
    IF changes = <<>> THEN <<>>
    ELSE (IF Head(changes).kind = kind THEN <<Head(changes).entry>> ELSE <<>>)
         \o OfKind(Tail(changes), kind)

Buckets(changes) ==
    [state |-> OfKind(changes, "State"), removed |-> OfKind(changes, "Removed"),
     updated |-> OfKind(changes, "Updated"), created |-> OfKind(changes, "Created")]

Size(buckets) ==
    Len(buckets.state) + Len(buckets.removed) + Len(buckets.updated)
        + Len(buckets.created)

RECURSIVE AllChanges(_)
\* every change the result metas record: those of fee_processing and those
\* of the operations, whatever the version of the transaction meta
AllChanges(metas) ==
    IF metas = <<>> THEN <<>>
    ELSE Head(metas).fee \o Concat(Head(metas).operations) \o AllChanges(Tail(metas))

RECURSIVE OperationChangesV3(_)
\* the changes of the operations of the metas that are TransactionMeta::V3
OperationChangesV3(metas) ==
    IF metas = <<>> THEN <<>>
    ELSE (IF Head(metas).v3 THEN Concat(Head(metas).operations) ELSE <<>>)
         \o OperationChangesV3(Tail(metas))

Successful(metas) == SelectSeq(metas, LAMBDA m : m.success)

\* C23 as stated: v1_ledger_entries puts every entry change of the ledger
\* close into the bucket of its kind, in order, and
\* v1_success_ledger_entries does so for the successful transactions.
C23_EveryChangeInItsBucket ==
    /\ op = "v1_ledger_entries" => result = Ok(Buckets(AllChanges(call.val.processing)))
    /\ op = "v1_success_ledger_entries"
       => result = Ok(Buckets(AllChanges(Successful(call.val.processing))))

\* what the code does ensure: on a ledger close of the newer format
\* v1_ledger_entries puts every
\* change of the operations of the V3 transaction metas into the bucket of
\* its kind, in order, and the sizes of the buckets sum to the number of
\* these changes; v1_success_ledger_entries returns what v1_ledger_entries
\* returns on the close restricted to the successful transactions.
C23_OperationChangesOfV3InBuckets ==
    /\ (op = "v1_ledger_entries" /\ call.val.version = 1)
       => /\ result = Ok(Buckets(OperationChangesV3(call.val.processing)))
          /\ Size(result.rows) = Len(OperationChangesV3(call.val.processing))
    /\ (op = "v1_success_ledger_entries" /\ call.val.version = 1)
       => /\ result = Ok(v1_ledger_entries(
                           [call.val EXCEPT !.processing = Successful(@)]))
          /\ Size(result.rows)
                 = Len(OperationChangesV3(Successful(call.val.processing)))

-----------------------------------------------------------------------------
(* Failure of the gateway read under read_to_rows *)

\* what db_read gave the read_to_rows call of this state
GatewayRead ==
    LET d == database_interact_derive(DeclOf(call.rtype))
    IN  read_table(d.table, d.fields, d.is_external, d.external,
                   call.hasConds, call.conds, [status |-> call.status, buf |-> call.buf])

\* C24: when db_read returns Err, read_to_rows relays a log message to the
\* host after the read call and then aborts; it returns no vector.  No
\* message is relayed when the read did not fail.
C24_ReadFailureLoggedThenAbort ==
    op = "read_to_rows" =>
        /\ GatewayRead.result.kind = "Err" =>
              /\ result = Panic
              /\ trace = GatewayRead.trace \o <<HostCall("tx_send_message", 0)>>
              /\ trace[Len(trace) - 1].ev \in {"read_raw", "read_as_id"}
        /\ GatewayRead.result.kind # "Err" => CallsOf(trace, "tx_send_message") = 0

C24_Witness ==
    /\ op = "read_to_rows"
    /\ call.status = I64(3)
    /\ GatewayRead.result = Err("DbRead")
    /\ result = Panic
    /\ trace[Len(trace)].ev = "tx_send_message"

-----------------------------------------------------------------------------
(* Validity of the pushed addresses *)

\* the positions in the trace of the pushes before position h
PushesBefore(h) ==
    LET at == {i \in 1..(h - 1) : trace[i].ev = "push"}
    IN  [n \in 1..Cardinality(at) |->
            CHOOSE i \in at : Cardinality({j \in at : j <= i}) = n]

\* the buffers that exist just before position k of the trace
Live(k) ==
    {[ptr |-> trace[i].arg, bytes |-> trace[i].bytes] :
        i \in {i \in 1..(k - 1) :
                  /\ trace[i].ev = "alloc"
                  /\ \A j \in (i + 1)..(k - 1) :
                        ~(trace[j].ev \in {"alloc", "drop"} /\ trace[j].arg = trace[i].arg)}}

\* where pointers stand among the pushed words: after a count at `at`, the
\* first word of each pair
PairsAfter(words, at) ==
    IF at > Len(words) THEN {} ELSE {at + 2 * k - 1 : k \in 1..words[at]}

\* the condition block at `at`: a count n, 2n words, then the counted pairs
ConditionPairs(words, at) ==
    IF at > Len(words) THEN {} ELSE PairsAfter(words, at + 1 + 2 * words[at])

PointerPositions(words, f) ==
    LET d == 3 + words[2]
    IN  IF f \in {"read_raw", "read_as_id"} THEN ConditionPairs(words, d)
        ELSE IF f = "write_raw" THEN PairsAfter(words, d)
        ELSE PairsAfter(words, d) \cup ConditionPairs(words, d + 1 + 2 * words[d])

\* C25: at every host call of a push-then-call sequence, each (pointer,
\* length) pair pushed before it refers to a buffer that existed when the
\* pair was pushed and exists, at the same place and with the same bytes,
\* when the host call is made.
C25_PushedBuffersLiveAtHostCall ==
    op \in {"put_statement", "update_statement", "read_statement"} =>
        \A h \in 1..Len(trace) :
            trace[h].ev \in HostCallNames =>
                LET at == PushesBefore(h)
                    words == [n \in 1..Len(at) |-> trace[at[n]].arg]
                IN  \A n \in PointerPositions(words, trace[h].ev) :
                        \/ words[n + 1] = 0
                        \/ \E b \in Live(h) :
                              /\ b \in Live(at[n])
                              /\ b.ptr = words[n]
                              /\ words[n + 1] <= Len(b.bytes)

C25_Witness ==
    /\ op = "update_statement"
    /\ result.kind = "Ok"
    /\ Len(call.conds) = 2
    /\ \E h \in 1..Len(trace) :
          /\ trace[h].ev = "update_raw"
          /\ Cardinality(Live(h)) = 2 + Len(call.rec)
          /\ Live(Len(trace) + 1) = {[ptr |-> call.conds[k].val.ptr,
                                      bytes |-> call.conds[k].bytes] : k \in 1..2}

-----------------------------------------------------------------------------
(* The builder through a chain of calls *)

\* C26: a call of column_equal_to, column_equal_to_bytes or
\* column_equal_to_xdr appends one equality condition at the end of the
\* builder's list and leaves the earlier conditions and the action as they
\* were; no call, execute and read included, changes the action the builder
\* was constructed with or removes a condition.
C26_AppendsOneConditionKeepsAction ==
    [][(builder.made /\ builder'.made) =>
          /\ builder'.action = builder.action
          /\ \/ builder'.conditions = builder.conditions
             \/ /\ op = "none" /\ op' = "none"
                /\ Len(builder'.conditions) = Len(builder.conditions) + 1
                /\ SubSeq(builder'.conditions, 1, Len(builder.conditions))
                       = builder.conditions
                /\ OperatorCode(builder'.conditions[Len(builder'.conditions)]) = 0
          /\ op' \in {"execute", "read"} => builder' = builder]_vars

C26_Witness ==
    /\ builder.made
    /\ builder.action = "Update"
    /\ Len(builder.conditions) = 2
    /\ \A k \in 1..2 : "bytes" \in DOMAIN builder.conditions[k]
    /\ builder.conditions[1].bytes = ScValToXdr(<<15, 97, 98, 99>>)
    /\ builder.conditions[2].bytes = SerializeZephyrVal(TagOf("i32"), Le32(20))
    /\ op = "execute"
    /\ result.kind = "Ok"

-----------------------------------------------------------------------------
(* Use of the answered buffer *)

\* the result the call of this state would have had with another buffer at
\* (offset, size)
ResultWith(buf) ==
    IF op = "read_table"
    THEN read_table(call.table, call.cols, call.hasExt, call.ext, call.hasConds,
                    call.conds, [status |-> call.status, buf |-> buf]).result
    ELSE to_scval(call.val[1], [status |-> call.status, buf |-> buf]).result

\* the call does not look at the buffer: whatever lies there, it ends the same
BufferUnused ==
    \A buf \in HostBuffers \cup XdrBuffers : ResultWith(buf) = result

\* C27: the status is translated first, and the buffer the host answered is
\* used only when the status is Success (1); on every other status it is
\* never read.
C27_BufferUsedOnlyOnSuccess ==
    (op \in {"read_table", "to_scval"} /\ call.status # I64(1)) => BufferUnused

\* what the code does ensure: the buffer is not read when the translation of
\* the status is not Ok
C27_BufferUnusedWhenTranslationFails ==
    (/\ op \in {"read_table", "to_scval"}
     /\ express_from_status(call.status).kind # "Ok") => BufferUnused

-----------------------------------------------------------------------------
(* Names that have no symbol token *)

ConditionColumns == [k \in 1..Len(call.conds) |-> call.conds[k].col]

\* C28: when the table name, a column name or the column name of a
\* condition has no symbol token, read_table, write_table and update_table
\* abort before any word is pushed.
C28_NameFailureBeforeAnyPush ==
    (/\ op \in {"read_table", "write_table", "update_table"}
     /\ \/ ~SymbolTryFromBytes(call.table).ok
        \/ ~AllEncodable(call.cols)
        \/ ~AllEncodable(ConditionColumns))
    => (result = Panic /\ trace = <<>>)

\* what the code does ensure: a table or column name without a token aborts
\* before any push; the name of a condition's column is encoded inside the
\* loop that pushes the conditions, so it aborts with the words pushed so
\* far on the stack and no host call made
C28_NameFailureAbortsBeforeHostCall ==
    (/\ op \in {"read_table", "write_table", "update_table"}
     /\ \/ ~SymbolTryFromBytes(call.table).ok
        \/ ~AllEncodable(call.cols)
        \/ ~AllEncodable(ConditionColumns))
    => /\ result = Panic
       /\ HostCalls = <<>>
       /\ (~SymbolTryFromBytes(call.table).ok \/ ~AllEncodable(call.cols))
              => trace = <<>>

-----------------------------------------------------------------------------
(* A builder used for the other action *)

\* C29: execute on a builder made for Read, and read on a builder made for
\* Update, return their error with no word pushed and no host call made,
\* and leave the builder's conditions as they were.
C29_MisuseTouchesNothing ==
    [][(/\ op = "none"
        /\ \/ op' = "execute" /\ builder.action = "Read"
           \/ op' = "read" /\ builder.action = "Update")
       => /\ result'.kind = "Err"
          /\ trace' = <<>>
          /\ builder' = builder]_vars

C29_Witness ==
    /\ op = "read"
    /\ builder.action = "Update"
    /\ Len(builder.conditions) = MaxConds
    /\ result.kind = "Err"
    /\ trace = <<>>

-----------------------------------------------------------------------------
(* The deploy command *)

DeploySteps == <<"parse", "build", "tables", "indexes", "dashboard", "wasm">>

TableRequests == SelectSeq(cli.requests, LAMBDA r : r.path = "zephyr_table_new")

\* the steps run in their order
StepsInOrder ==
    /\ Len(cli.steps) <= Len(DeploySteps)
    /\ cli.steps = SubSeq(DeploySteps, 1, Len(cli.steps))

WasmReached ==
    \/ \E i \in 1..Len(cli.steps) : cli.steps[i] = "wasm"
    \/ cli.pc = "wasm"

\* C30: the steps of deploy run in the order parse, build, tables, indexes,
\* dashboard, wasm, and when the backend answers a table creation with a
\* status that is no success, deploy_tables fails with TableCreationError
\* and the wasm upload is never reached.
C30_TableFailureStopsDeploy ==
    /\ StepsInOrder
    /\ (\E i \in 1..Len(TableRequests) : TableRequests[i].response = "failure")
       => (cli.error = "TableCreationError" /\ ~WasmReached)

\* what the code does ensure: the order of the steps, a request for every
\* table before the later steps, and no wasm upload after a table request
\* that could not be sent
C30_StepsInOrderTablesRequested ==
    /\ StepsInOrder
    /\ cli.pc \in {"indexes", "dashboard", "wasm", "done"}
       => Len(TableRequests) = Len(cli.config.tables)
    /\ (\E i \in 1..Len(TableRequests) : TableRequests[i].response = "unreachable")
       => ~WasmReached

====
